---------------------------- MODULE Spec2Model ----------------------------
(***************************************************************************)
(* Verification model of vortex-config.                                    *)
(*                                                                         *)
(*   - ConfigCache (vortex-server/src/cache/config_cache.rs): the          *)
(*     request-coalescing cache in front of the config source.             *)
(*   - GitRepository (vortex-git/src/repository/git_ops.rs): the           *)
(*     repository state machine driven by concurrent callers.              *)
(*   - RefreshScheduler / GitState (vortex-git/src/sync): the background   *)
(*     refresh loop, its backoff and its shutdown.                         *)
(*                                                                         *)
(* Each component has its own specification (SpecCache, SpecRepo,          *)
(* SpecSched, SpecSchedFair); the other components are at rest in it.      *)
(***************************************************************************)
EXTENDS Integers, Sequences, FiniteSets, TLC

\* ------------------------------------------------------------------ bounds
NumTasks == 2
MaxBuilds == 2
NumCallers == 2

Tasks == 1..NumTasks
\* Two cache keys: calls on one key and calls on different keys both occur.
Keys == {1, 2}
BuildIds == 1..MaxBuilds
None == 0

VARIABLES
    \* ---- ConfigCache
    cache,        \* inner: key -> id of the build whose value is stored, or None
    waiters,      \* in-flight initialisation per key: build id, or None
    builds,       \* build id -> [key, status, waitersAtAbort]
    callCount,    \* key -> number of times init() was invoked
    evicted,      \* key -> an entry of the key was removed at some time
    taskPc,       \* task -> position inside get_or_insert_with
    taskKey,      \* task -> key of the current / last call
    taskWait,     \* task -> build the task runs or waits on
    taskRes,      \* task -> result of the last call
    cacheTtl,     \* CacheConfig.ttl_seconds, in time units
    cacheNow,     \* the clock of the cache
    insertedAt,   \* key -> the time its entry was inserted
    hitAge,       \* task -> age of the entry its latest lookup returned (0: none)
    invalidatedBuilds, \* the builds that were in flight when their key was invalidated
    \* ---- GitRepository
    repoState,    \* state: the RepoState behind the RwLock
    callerOp,     \* caller -> the public operation it runs (or ran last)
    callerPc,     \* caller -> position inside that operation
    callerRes,    \* caller -> result of the last operation
    gitElapsed,   \* caller -> time its blocking clone / fetch has been running
    \* ---- RefreshScheduler, RefreshHandle, GitState
    config,         \* RefreshConfig
    now,            \* the clock
    timerPeriod,    \* interval_timer.period()
    timerDeadline,  \* the time at which interval_timer ticks next
    timerFresh,     \* interval_timer has not ticked since it was created
    currentBackoff, \* current_backoff
    failureCount,   \* GitState.failure_count
    gitCommit,      \* GitState.commit
    lastError,      \* GitState.last_error
    schedPc,        \* position of the run loop
    shutdownValue,  \* the value in the watch channel
    rxChanged,      \* the receiver has not seen the latest value
    handle,         \* the RefreshHandle: "held" or "dropped"
    lastStart,      \* the time the latest refresh attempt started (-1: none yet)
    \* ---- ConfigCache, invalidation by pattern
    store,          \* CacheKey -> the value stored under it, or None
    invPc,          \* position inside invalidate_by_pattern
    invPattern,     \* pattern_str of the current / last call
    invKeys,        \* invalidated_keys still to be invalidated
    invCount,       \* count = invalidated_keys.len()
    invBefore,      \* the entries at the time the call iterated the cache
    invTouched,     \* keys inserted by others while the call was running
    invResult,      \* InvalidationResult.count of the last call (-1: none yet)
    invCall,        \* the current / last invalidation call and its arguments
    \* ---- the configuration handlers
    httpSource,     \* label -> what config_source.fetch answers for it now
    httpCacheOn,    \* state.cache() is Some
    httpCached,     \* labels with a cached response (of the one app and profile)
    httpReq,        \* the request being served / served last
    httpPc,         \* position inside the handler
    httpFirstErr,   \* the failure of the fetch at the requested label ("none": none)
    httpRetried,    \* the handler went on to the default label
    httpErr,        \* the failure the response reports ("none": none)
    httpResp,       \* the response: status and the label of its body
    gitDefaultLabel, \* GitBackendConfig.default_label (GIT_DEFAULT_LABEL)
    httpCalls,      \* what the handler used for the request: cache and source calls
    \* ---- ConfigFileResolver
    fs,             \* the files of the checked-out repository
    unparseable,    \* the files ConfigParser::parse_file fails on
    searchPaths,    \* search_paths
    resQuery,       \* the query resolve is called with
    resResult,      \* the result of the call: Ok(sources) or Err
    \* ---- deep_merge
    mergeBase,      \* base
    mergeOverlay,   \* overlay
    mergeResult,    \* base after deep_merge(&mut base, &overlay) (NoMap: not called)
    \* ---- PropertySourceList
    sources,        \* sources
    added,          \* the sources given to add, in the order of the calls
    listMerged,     \* the map the latest merge() returned (NoMap: none yet)
    \* ---- CacheKey
    rawA,           \* the components one key is built from
    rawB,           \* the components another key is built from
    keyA,           \* CacheKey::new of rawA (NoKey: not built)
    keyB,           \* CacheKey::new of rawB (NoKey: not built)
    srvCache,       \* the handlers' cache: CacheKey -> the request its response was built for
    srvReq,         \* the request the handler served last (NoKey: none yet)
    srvResp,        \* the request the response it served was built for
    \* ---- GitState, called directly
    lastRefresh,    \* GitState.last_refresh (-1: None)
    healthy,        \* what the latest is_healthy() returned ("none": no call yet)
    failureCalls,   \* record_failure calls since the last record_success / reset
    \* ---- ConfigMap::get, flatten_config_map, the source of a response
    flatConfig,     \* a ConfigMap: inner, the entries in insertion order
    flatResult,     \* what flatten_config_map returned (NoFlat: not called)
    getPath,        \* the path ConfigMap::get was called with
    getResult,      \* what it returned (NoCall: not called)
    respSource      \* PropertySourceResponse.source fetch_config built (NoSource: none)

ttlVars == <<cacheTtl, cacheNow, insertedAt, hitAge>>
cacheVars == <<cache, waiters, builds, callCount, evicted,
               taskPc, taskKey, taskWait, taskRes, ttlVars, invalidatedBuilds>>
repoVars == <<repoState, callerOp, callerPc, callerRes, gitElapsed>>
schedVars == <<config, now, timerPeriod, timerDeadline, timerFresh, currentBackoff,
               failureCount, gitCommit, lastError, schedPc, shutdownValue,
               rxChanged, handle, lastStart>>
invVars == <<store, invPc, invPattern, invKeys, invCount, invBefore, invTouched,
             invResult, invCall>>
\* The variables of the components added after the first three.
httpVars == <<httpSource, httpCacheOn, httpCached, httpReq, httpPc, httpFirstErr,
              httpRetried, httpErr, httpResp, gitDefaultLabel, httpCalls>>
resVars == <<fs, unparseable, searchPaths, resQuery, resResult>>
mergeVars == <<mergeBase, mergeOverlay, mergeResult>>
listVars == <<sources, added, listMerged>>
keyVars == <<rawA, rawB, keyA, keyB, srvCache, srvReq, srvResp>>
stateVars == <<lastRefresh, healthy, failureCalls>>
flatVars == <<flatConfig, flatResult, getPath, getResult, respSource>>
restVars == <<invVars, httpVars, resVars, mergeVars, listVars, keyVars, stateVars, flatVars>>
vars == <<cacheVars, repoVars, schedVars, restVars>>

\* ------------------------------------------------------------ ConfigCache

NoBuild == [key |-> None, status |-> "unused", waitersAtAbort |-> 0]
NoResult == [kind |-> "none", val |-> None, via |-> "none"]

\* The most time units of a TTL, and the latest time of the clock.
MaxTtl == 2
MaxClock == 4

\* The one caller and the one key of the cache in the specification of
\* the TTL, and the value insert stores (no build made it).
TtlCaller == 1
TtlKey == 1
InsertedValue == MaxBuilds + 1

\* An empty cache, no call in progress, the clock at 0.
CacheCreated ==
    /\ cache = [k \in Keys |-> None]
    /\ waiters = [k \in Keys |-> None]
    /\ builds = [b \in BuildIds |-> NoBuild]
    /\ callCount = [k \in Keys |-> 0]
    /\ evicted = [k \in Keys |-> FALSE]
    /\ taskPc = [t \in Tasks |-> "idle"]
    /\ taskKey = [t \in Tasks |-> None]
    /\ taskWait = [t \in Tasks |-> None]
    /\ taskRes = [t \in Tasks |-> NoResult]
    /\ cacheNow = 0
    /\ insertedAt = [k \in Keys |-> 0]
    /\ hitAge = [t \in Tasks |-> 0]
    /\ invalidatedBuilds = {}

\* ConfigCache::new with the longest TTL (no time passes in SpecCache).
CacheInit == CacheCreated /\ cacheTtl = MaxTtl

\* ConfigCache::new, any TTL.
TtlInit == CacheCreated /\ cacheTtl \in 1..MaxTtl

NeverExpired(k) == FALSE

\* time_to_live: the entry of k, if any, is ttl_seconds or more old.
Expired(k) == cacheNow - insertedAt[k] >= cacheTtl

AbsentAlways(k) == FALSE

\* self.inner.get(key) is Some: an entry is stored and has not expired.
Present(k) == cache[k] # None /\ ~Expired(k)

\* The id of the next build to start (None when the bound is exhausted).
NextBuildId ==
    IF \E b \in BuildIds : builds[b].status = "unused"
    THEN CHOOSE b \in BuildIds :
            /\ builds[b].status = "unused"
            /\ \A c \in BuildIds : builds[c].status = "unused" => b <= c
    ELSE None

\* Tasks suspended on the in-flight build b.
WaitingOn(b) == {t \in Tasks : taskPc[t] = "waiting" /\ taskWait[t] = b}

\* get_or_insert_with, first lookup (self.inner.get): a hit returns the
\* cached value, a miss goes on to try_get_with.
GetOrInsertWith(t, k) ==
    /\ taskPc[t] = "idle"
    /\ taskKey' = [taskKey EXCEPT ![t] = k]
    /\ taskWait' = [taskWait EXCEPT ![t] = None]
    /\ IF Present(k)
       THEN /\ taskRes' = [taskRes EXCEPT ![t] =
                              [kind |-> "ok", val |-> cache[k], via |-> "hit"]]
            /\ hitAge' = [hitAge EXCEPT ![t] = cacheNow - insertedAt[k]]
            /\ UNCHANGED taskPc
       ELSE /\ taskRes' = [taskRes EXCEPT ![t] = NoResult]
            /\ taskPc' = [taskPc EXCEPT ![t] = "miss"]
            /\ UNCHANGED hitAge
    /\ UNCHANGED <<cache, waiters, builds, callCount, evicted>>
    /\ UNCHANGED <<cacheTtl, cacheNow, insertedAt, repoVars, schedVars, restVars, invalidatedBuilds>>

JoinsNothing(k) == FALSE

\* Does the caller that finds an in-flight initialisation for the key join it?
JoinsInFlight(k) == waiters[k] # None

\* self.inner.try_get_with(key, init): present -> return it; an
\* initialisation in flight -> wait for it; otherwise register as the
\* initialiser and start evaluating init().
TryGetWith(t) ==
    LET k == taskKey[t] IN
    /\ taskPc[t] = "miss"
    /\ IF Present(k)
       THEN /\ taskRes' = [taskRes EXCEPT ![t] =
                              [kind |-> "ok", val |-> cache[k], via |-> "hit"]]
            /\ taskPc' = [taskPc EXCEPT ![t] = "idle"]
            /\ hitAge' = [hitAge EXCEPT ![t] = cacheNow - insertedAt[k]]
            /\ UNCHANGED <<waiters, builds, callCount, taskWait>>
       ELSE IF JoinsInFlight(k)
       THEN /\ taskPc' = [taskPc EXCEPT ![t] = "waiting"]
            /\ taskWait' = [taskWait EXCEPT ![t] = waiters[k]]
            /\ UNCHANGED <<waiters, builds, callCount, taskRes, hitAge>>
       ELSE /\ NextBuildId # None
            /\ UNCHANGED hitAge
            /\ builds' = [builds EXCEPT ![NextBuildId] =
                             [key |-> k, status |-> "pending", waitersAtAbort |-> 0]]
            /\ waiters' = [waiters EXCEPT ![k] = NextBuildId]
            /\ callCount' = [callCount EXCEPT ![k] = @ + 1]
            /\ taskPc' = [taskPc EXCEPT ![t] = "building"]
            /\ taskWait' = [taskWait EXCEPT ![t] = NextBuildId]
            /\ UNCHANGED taskRes
    /\ UNCHANGED <<cache, evicted, taskKey>>
    /\ UNCHANGED <<cacheTtl, cacheNow, insertedAt, repoVars, schedVars, restVars, invalidatedBuilds>>

StoresFailure(k, b) == b

\* What the cache holds for key k after the build b of k failed.
StoredAfterFailure(k, b) == cache[k]

\* init() resolved to Ok(response): the value is inserted and returned.
BuildOk(t) ==
    LET b == taskWait[t]
        k == taskKey[t] IN
    /\ taskPc[t] = "building"
    /\ builds' = [builds EXCEPT ![b].status = "ok"]
    /\ cache' = [cache EXCEPT ![k] = b]
    /\ insertedAt' = [insertedAt EXCEPT ![k] = cacheNow]
    /\ waiters' = [waiters EXCEPT ![k] = None]
    /\ taskPc' = [taskPc EXCEPT ![t] = "idle"]
    /\ taskRes' = [taskRes EXCEPT ![t] = [kind |-> "ok", val |-> b, via |-> "built"]]
    /\ taskWait' = [taskWait EXCEPT ![t] = None]
    /\ UNCHANGED <<callCount, evicted, taskKey>>
    /\ UNCHANGED <<cacheTtl, cacheNow, hitAge, repoVars, schedVars, restVars, invalidatedBuilds>>

\* init() resolved to Err: nothing is inserted, the error is returned
\* (mapped to CacheError::FetchError).
BuildErr(t) ==
    LET b == taskWait[t]
        k == taskKey[t] IN
    /\ taskPc[t] = "building"
    /\ builds' = [builds EXCEPT ![b].status = "err"]
    /\ cache' = [cache EXCEPT ![k] = StoredAfterFailure(k, b)]
    /\ waiters' = [waiters EXCEPT ![k] = None]
    /\ taskPc' = [taskPc EXCEPT ![t] = "idle"]
    /\ taskRes' = [taskRes EXCEPT ![t] = [kind |-> "err", val |-> b, via |-> "built"]]
    /\ taskWait' = [taskWait EXCEPT ![t] = None]
    /\ UNCHANGED <<callCount, evicted, taskKey>>
    /\ UNCHANGED <<ttlVars, repoVars, schedVars, restVars, invalidatedBuilds>>

\* The result a waiter takes from the finished initialisation b.
WaiterResult(b) ==
    IF builds[b].status = "ok" THEN [kind |-> "ok", val |-> b, via |-> "joined"]
    ELSE [kind |-> "err", val |-> b, via |-> "joined"]

\* A caller suspended on an initialisation that has finished resumes with
\* its result.
WaiterWake(t) ==
    LET b == taskWait[t] IN
    /\ taskPc[t] = "waiting"
    /\ builds[b].status \in {"ok", "err"}
    /\ taskPc' = [taskPc EXCEPT ![t] = "idle"]
    /\ taskRes' = [taskRes EXCEPT ![t] = WaiterResult(b)]
    /\ taskWait' = [taskWait EXCEPT ![t] = None]
    /\ UNCHANGED <<cache, waiters, builds, callCount, evicted, taskKey>>
    /\ UNCHANGED <<ttlVars, repoVars, schedVars, restVars, invalidatedBuilds>>

\* A caller suspended on an initialisation whose owner went away retries
\* try_get_with from the start.
WaiterRetry(t) ==
    LET b == taskWait[t] IN
    /\ taskPc[t] = "waiting"
    /\ builds[b].status = "aborted"
    /\ taskPc' = [taskPc EXCEPT ![t] = "miss"]
    /\ taskWait' = [taskWait EXCEPT ![t] = None]
    /\ UNCHANGED <<cache, waiters, builds, callCount, evicted, taskKey, taskRes>>
    /\ UNCHANGED <<ttlVars, repoVars, schedVars, restVars, invalidatedBuilds>>

\* The future of get_or_insert_with is dropped at one of its await points
\* (the handler awaits it inline, so a cancelled request drops it). init is
\* evaluated inside that future: dropping it drops the build.
DropCall(t) ==
    LET b == taskWait[t]
        k == taskKey[t] IN
    /\ taskPc[t] \in {"miss", "building", "waiting"}
    /\ IF taskPc[t] = "building"
       THEN /\ builds' = [builds EXCEPT ![b].status = "aborted",
                                        ![b].waitersAtAbort = Cardinality(WaitingOn(b))]
            /\ waiters' = [waiters EXCEPT ![k] = None]
       ELSE UNCHANGED <<builds, waiters>>
    /\ taskPc' = [taskPc EXCEPT ![t] = "idle"]
    /\ taskRes' = [taskRes EXCEPT ![t] = [kind |-> "dropped", val |-> None, via |-> "none"]]
    /\ taskWait' = [taskWait EXCEPT ![t] = None]
    /\ UNCHANGED <<cache, callCount, evicted, taskKey>>
    /\ UNCHANGED <<ttlVars, repoVars, schedVars, restVars, invalidatedBuilds>>

\* The builds of key k that have started and not ended.
InFlight(k) == {b \in BuildIds : builds[b].key = k /\ builds[b].status = "pending"}

\* invalidate(key), or the entry's expiry / eviction: the entry is removed.
\* An initialisation in flight for the key is left alone.
Invalidate(k) ==
    /\ cache[k] # None
    /\ cache' = [cache EXCEPT ![k] = None]
    /\ evicted' = [evicted EXCEPT ![k] = TRUE]
    /\ invalidatedBuilds' = invalidatedBuilds \cup InFlight(k)
    /\ UNCHANGED <<waiters, builds, callCount, taskPc, taskKey, taskWait, taskRes>>
    /\ UNCHANGED <<ttlVars, repoVars, schedVars, restVars>>

\* invalidate(key) while no entry is stored under the key: nothing is
\* removed, and an initialisation in flight for the key is left alone.
InvalidateAbsent(k) ==
    /\ cache[k] = None
    /\ InFlight(k) \ invalidatedBuilds # {}
    /\ invalidatedBuilds' = invalidatedBuilds \cup InFlight(k)
    /\ UNCHANGED <<cache, waiters, builds, callCount, evicted, taskPc, taskKey, taskWait,
                   taskRes>>
    /\ UNCHANGED <<ttlVars, repoVars, schedVars, restVars>>

CacheNext ==
    \/ \E t \in Tasks, k \in Keys : GetOrInsertWith(t, k)
    \/ \E t \in Tasks : TryGetWith(t)
    \/ \E t \in Tasks : BuildOk(t)
    \/ \E t \in Tasks : BuildErr(t)
    \/ \E t \in Tasks : WaiterWake(t)
    \/ \E t \in Tasks : WaiterRetry(t)
    \/ \E t \in Tasks : DropCall(t)
    \/ \E k \in Keys : Invalidate(k)

\* get(key): the entry if one is stored and has not expired.
CacheGet(t, k) ==
    /\ taskPc[t] = "idle"
    /\ taskKey' = [taskKey EXCEPT ![t] = k]
    /\ IF Present(k)
       THEN /\ taskRes' = [taskRes EXCEPT ![t] =
                              [kind |-> "ok", val |-> cache[k], via |-> "get"]]
            /\ hitAge' = [hitAge EXCEPT ![t] = cacheNow - insertedAt[k]]
       ELSE /\ taskRes' = [taskRes EXCEPT ![t] =
                              [kind |-> "none", val |-> None, via |-> "get"]]
            /\ UNCHANGED hitAge
    /\ UNCHANGED <<cache, waiters, builds, callCount, evicted, taskPc, taskWait>>
    /\ UNCHANGED <<cacheTtl, cacheNow, insertedAt, repoVars, schedVars, restVars, invalidatedBuilds>>

\* insert(key, value): the value replaces the entry of the key, if any.
CacheInsert(k) ==
    /\ cache' = [cache EXCEPT ![k] = InsertedValue]
    /\ insertedAt' = [insertedAt EXCEPT ![k] = cacheNow]
    /\ evicted' = [evicted EXCEPT ![k] = @ \/ cache[k] # None]
    /\ UNCHANGED <<waiters, builds, callCount, taskPc, taskKey, taskWait, taskRes>>
    /\ UNCHANGED <<cacheTtl, cacheNow, hitAge, repoVars, schedVars, restVars, invalidatedBuilds>>

\* A time unit passes; the entries that reach their TTL expire.
AdvanceClock ==
    /\ cacheNow < MaxClock
    /\ cacheNow' = cacheNow + 1
    /\ evicted' = [k \in Keys |->
                      evicted[k] \/ (cache[k] # None
                                       /\ cacheNow + 1 - insertedAt[k] >= cacheTtl)]
    /\ UNCHANGED <<cache, waiters, builds, callCount,
                   taskPc, taskKey, taskWait, taskRes>>
    /\ UNCHANGED <<cacheTtl, insertedAt, hitAge, repoVars, schedVars, restVars, invalidatedBuilds>>

\* Callers of get_or_insert_with and get while keys are invalidated.
StaleNext ==
    \/ \E t \in Tasks, k \in Keys : GetOrInsertWith(t, k)
    \/ \E t \in Tasks : TryGetWith(t)
    \/ \E t \in Tasks : BuildOk(t)
    \/ \E t \in Tasks : BuildErr(t)
    \/ \E t \in Tasks : WaiterWake(t)
    \/ \E t \in Tasks, k \in Keys : CacheGet(t, k)
    \/ \E k \in Keys : Invalidate(k)
    \/ \E k \in Keys : InvalidateAbsent(k)

\* One caller of get, get_or_insert_with and insert on one key, while
\* time passes.
TtlNext ==
    \/ GetOrInsertWith(TtlCaller, TtlKey)
    \/ TryGetWith(TtlCaller)
    \/ BuildOk(TtlCaller)
    \/ BuildErr(TtlCaller)
    \/ CacheGet(TtlCaller, TtlKey)
    \/ CacheInsert(TtlKey)
    \/ Invalidate(TtlKey)
    \/ AdvanceClock


\* ---------------------------------------------------------- GitRepository

MaxElapsed == 2
\* GitBackendConfig: clone_timeout and fetch_timeout, in time units.
CloneTimeout == 2
FetchTimeout == 1

Callers == 1..NumCallers
CloneErrors == {"e1", "e2"}
RepoOps == {"ensure_cloned", "fetch", "checkout", "head_commit"}

\* enum RepoState
St(tag) == [tag |-> tag, msg |-> ""]
StError(m) == [tag |-> "Error", msg |-> m]

Res(kind) == [kind |-> kind, msg |-> ""]
ResMsg(kind, m) == [kind |-> kind, msg |-> m]

\* GitRepository::new: Ready when <local_path>/.git exists, NotCloned otherwise.
RepoInit ==
    /\ repoState \in {St("NotCloned"), St("Ready")}
    /\ callerOp = [c \in Callers |-> "none"]
    /\ callerPc = [c \in Callers |-> "idle"]
    /\ callerRes = [c \in Callers |-> Res("none")]
    /\ gitElapsed = [c \in Callers |-> 0]

\* A caller enters one of the public operations; each of them begins with
\* ensure_cloned().
StartOp(c, op) ==
    /\ callerPc[c] = "idle"
    /\ callerOp' = [callerOp EXCEPT ![c] = op]
    /\ callerPc' = [callerPc EXCEPT ![c] = "ensure"]
    /\ callerRes' = [callerRes EXCEPT ![c] = Res("none")]
    /\ UNCHANGED repoState
    /\ UNCHANGED gitElapsed
    /\ UNCHANGED <<cacheVars, schedVars, restVars>>

\* Where the operation continues once ensure_cloned() has returned Ok.
AfterEnsure(op) ==
    CASE op = "ensure_cloned" -> "idle"
      [] op = "fetch" -> "fetch_lock"
      [] op \in {"checkout", "head_commit"} -> "resolving"

EnsureOutcomeRetriesOnError(st) ==
    CASE st.tag = "Ready" -> [kind |-> "Ok", msg |-> ""]
      [] st.tag \in {"NotCloned", "Error"} -> [kind |-> "clone", msg |-> ""]
      [] st.tag \in {"Cloning", "Updating"} -> [kind |-> "Refreshing", msg |-> ""]

\* The outcome of ensure_cloned for the state it read: "ok", "clone", or
\* the error it returns.
EnsureOutcome(st) ==
    CASE st.tag = "Ready" -> Res("Ok")
      [] st.tag = "NotCloned" -> Res("clone")
      [] st.tag \in {"Cloning", "Updating"} -> Res("Refreshing")
      [] st.tag = "Error" -> ResMsg("SourceUnavailable", st.msg)

\* ensure_cloned: read the state (read lock, released at once) and match on
\* the copy.
EnsureCloned(c) ==
    LET out == EnsureOutcome(repoState) IN
    /\ callerPc[c] = "ensure"
    /\ IF out.kind = "Ok"
       THEN /\ callerPc' = [callerPc EXCEPT ![c] = AfterEnsure(callerOp[c])]
            /\ callerRes' = [callerRes EXCEPT ![c] =
                                IF callerOp[c] = "ensure_cloned" THEN out ELSE @]
       ELSE IF out.kind = "clone"
       THEN /\ callerPc' = [callerPc EXCEPT ![c] = "clone_start"]
            /\ UNCHANGED callerRes
       ELSE /\ callerPc' = [callerPc EXCEPT ![c] = "idle"]
            /\ callerRes' = [callerRes EXCEPT ![c] = out]
    /\ UNCHANGED <<repoState, callerOp>>
    /\ UNCHANGED gitElapsed
    /\ UNCHANGED <<cacheVars, schedVars, restVars>>

\* clone_repo, first block: take the write lock and set Cloning, then hand
\* clone_blocking to the blocking pool.
CloneStart(c) ==
    /\ callerPc[c] = "clone_start"
    /\ repoState' = St("Cloning")
    /\ callerPc' = [callerPc EXCEPT ![c] = "cloning"]
    /\ UNCHANGED <<callerOp, callerRes>>
    /\ UNCHANGED gitElapsed
    /\ UNCHANGED <<cacheVars, schedVars, restVars>>

\* clone_repo: clone_blocking returned Ok(()).
CloneOk(c) ==
    /\ callerPc[c] = "cloning"
    /\ repoState' = St("Ready")
    /\ callerPc' = [callerPc EXCEPT ![c] = AfterEnsure(callerOp[c])]
    /\ callerRes' = [callerRes EXCEPT ![c] =
                        IF callerOp[c] = "ensure_cloned" THEN Res("Ok") ELSE @]
    /\ UNCHANGED callerOp
    /\ gitElapsed' = [gitElapsed EXCEPT ![c] = 0]
    /\ UNCHANGED <<cacheVars, schedVars, restVars>>

\* clone_repo: clone_blocking returned Err(e).
CloneErr(c, m) ==
    /\ callerPc[c] = "cloning"
    /\ repoState' = StError(m)
    /\ callerPc' = [callerPc EXCEPT ![c] = "idle"]
    /\ callerRes' = [callerRes EXCEPT ![c] = ResMsg("Git", m)]
    /\ UNCHANGED callerOp
    /\ gitElapsed' = [gitElapsed EXCEPT ![c] = 0]
    /\ UNCHANGED <<cacheVars, schedVars, restVars>>

\* clone_repo: the blocking task did not complete (JoinError); the `?`
\* returns "Clone task failed" before the match on the result.
CloneJoinError(c) ==
    /\ callerPc[c] = "cloning"
    /\ callerPc' = [callerPc EXCEPT ![c] = "idle"]
    /\ callerRes' = [callerRes EXCEPT ![c] = ResMsg("Git", "Clone task failed")]
    /\ UNCHANGED <<repoState, callerOp>>
    /\ gitElapsed' = [gitElapsed EXCEPT ![c] = 0]
    /\ UNCHANGED <<cacheVars, schedVars, restVars>>

\* fetch, the block under the write lock: Updating -> Refreshing, anything
\* else -> set Updating and hand fetch_blocking to the blocking pool.
FetchLock(c) ==
    /\ callerPc[c] = "fetch_lock"
    /\ IF repoState = St("Updating")
       THEN /\ callerPc' = [callerPc EXCEPT ![c] = "idle"]
            /\ callerRes' = [callerRes EXCEPT ![c] = Res("Refreshing")]
            /\ UNCHANGED repoState
       ELSE /\ repoState' = St("Updating")
            /\ callerPc' = [callerPc EXCEPT ![c] = "fetching"]
            /\ UNCHANGED callerRes
    /\ UNCHANGED callerOp
    /\ UNCHANGED gitElapsed
    /\ UNCHANGED <<cacheVars, schedVars, restVars>>

\* The state fetch writes once fetch_blocking has failed.
StateAfterFetchErr == St("Ready")

\* fetch: fetch_blocking returned Ok(()).
FetchOk(c) ==
    /\ callerPc[c] = "fetching"
    /\ repoState' = St("Ready")
    /\ callerPc' = [callerPc EXCEPT ![c] = "idle"]
    /\ callerRes' = [callerRes EXCEPT ![c] = Res("Ok")]
    /\ UNCHANGED callerOp
    /\ gitElapsed' = [gitElapsed EXCEPT ![c] = 0]
    /\ UNCHANGED <<cacheVars, schedVars, restVars>>

\* fetch: fetch_blocking returned Err(e).
FetchErr(c) ==
    /\ callerPc[c] = "fetching"
    /\ repoState' = StateAfterFetchErr
    /\ callerPc' = [callerPc EXCEPT ![c] = "idle"]
    /\ callerRes' = [callerRes EXCEPT ![c] = ResMsg("Git", "Fetch failed")]
    /\ UNCHANGED callerOp
    /\ gitElapsed' = [gitElapsed EXCEPT ![c] = 0]
    /\ UNCHANGED <<cacheVars, schedVars, restVars>>

\* fetch: the blocking task did not complete (JoinError); the `?` returns
\* "Fetch task failed" before the match on the result.
FetchJoinError(c) ==
    /\ callerPc[c] = "fetching"
    /\ callerPc' = [callerPc EXCEPT ![c] = "idle"]
    /\ callerRes' = [callerRes EXCEPT ![c] = ResMsg("Git", "Fetch task failed")]
    /\ UNCHANGED <<repoState, callerOp>>
    /\ gitElapsed' = [gitElapsed EXCEPT ![c] = 0]
    /\ UNCHANGED <<cacheVars, schedVars, restVars>>

\* clone_repo / fetch while awaiting spawn_blocking: the blocking Git call
\* is running and time passes; the await has no deadline.
GitTaskRuns(c) ==
    /\ callerPc[c] \in {"cloning", "fetching"}
    /\ gitElapsed[c] < MaxElapsed
    /\ gitElapsed' = [gitElapsed EXCEPT ![c] = @ + 1]
    /\ UNCHANGED <<repoState, callerOp, callerPc, callerRes>>
    /\ UNCHANGED <<cacheVars, schedVars, restVars>>

\* checkout / head_commit after ensure_cloned: resolve the reference (or
\* HEAD) on the blocking pool; the repository state is not touched.
Resolve(c, r) ==
    /\ callerPc[c] = "resolving"
    /\ r.kind = "LabelNotFound" => callerOp[c] = "checkout"
    /\ callerPc' = [callerPc EXCEPT ![c] = "idle"]
    /\ callerRes' = [callerRes EXCEPT ![c] = r]
    /\ UNCHANGED <<repoState, callerOp>>
    /\ UNCHANGED gitElapsed
    /\ UNCHANGED <<cacheVars, schedVars, restVars>>

ResolveResults == {Res("Ok"), Res("LabelNotFound"), ResMsg("Git", "Failed to open repo")}

RepoNext ==
    \/ \E c \in Callers, op \in RepoOps : StartOp(c, op)
    \/ \E c \in Callers : EnsureCloned(c)
    \/ \E c \in Callers : CloneStart(c)
    \/ \E c \in Callers : CloneOk(c)
    \/ \E c \in Callers, m \in CloneErrors : CloneErr(c, m)
    \/ \E c \in Callers : CloneJoinError(c)
    \/ \E c \in Callers : FetchLock(c)
    \/ \E c \in Callers : FetchOk(c)
    \/ \E c \in Callers : FetchErr(c)
    \/ \E c \in Callers : FetchJoinError(c)
    \/ \E c \in Callers, r \in ResolveResults : Resolve(c, r)

\* The operations of the repository while time passes.
RepoTimedNext ==
    \/ \E c \in Callers, op \in RepoOps : StartOp(c, op)
    \/ \E c \in Callers : EnsureCloned(c)
    \/ \E c \in Callers : CloneStart(c)
    \/ \E c \in Callers : CloneOk(c)
    \/ \E c \in Callers, m \in CloneErrors : CloneErr(c, m)
    \/ \E c \in Callers : FetchLock(c)
    \/ \E c \in Callers : FetchOk(c)
    \/ \E c \in Callers : FetchErr(c)
    \/ \E c \in Callers : GitTaskRuns(c)

\* ------------------------------------- RefreshScheduler, RefreshHandle, GitState

MaxTime == 4
MaxFailureCount == 2
NumCommits == 1

Commits == 1..NumCommits

\* The refresh configurations the scheduler is run with (durations in
\* whole time units).
Configs ==
    [interval : {1, 2}, maxFailures : {1, 2}, multiplier : {2, 3}, maxBackoff : {5}]

Min(a, b) == IF a <= b THEN a ELSE b

\* RefreshScheduler::new, GitState::new: current_backoff is the configured
\* interval; the scheduler is not started yet and there is no handle.
SchedInit ==
    /\ config \in Configs
    /\ now = 0
    /\ timerPeriod = config.interval
    /\ timerDeadline = 0
    /\ timerFresh = TRUE
    /\ currentBackoff = config.interval
    /\ failureCount = 0
    /\ gitCommit = None
    /\ lastError = "none"
    /\ schedPc = "created"
    /\ shutdownValue = FALSE
    /\ rxChanged = FALSE
    /\ handle = "none"
    /\ lastStart = -1

\* trigger_refresh, Ok(commit): state.record_success(commit).  (The
\* scheduler is borrowed: start(self) has not consumed it yet.)
TriggerRefreshOk(c) ==
    /\ schedPc = "created"
    /\ gitCommit' = c
    /\ lastError' = "none"
    /\ failureCount' = 0
    /\ schedPc' = "trigger_reset"
    /\ UNCHANGED <<config, now, timerPeriod, timerDeadline, timerFresh, currentBackoff,
                   shutdownValue, rxChanged, handle, lastStart>>
    /\ UNCHANGED <<cacheVars, repoVars, restVars>>

\* trigger_refresh, Ok(commit): reset_backoff, then the result is returned.
TriggerResetBackoff ==
    /\ schedPc = "trigger_reset"
    /\ currentBackoff' = config.interval
    /\ schedPc' = "created"
    /\ UNCHANGED <<config, now, timerPeriod, timerDeadline, timerFresh, failureCount,
                   gitCommit, lastError, shutdownValue, rxChanged, handle, lastStart>>
    /\ UNCHANGED <<cacheVars, repoVars, restVars>>

\* trigger_refresh, Err(e): state.record_failure(e), nothing else, then
\* the result is returned.
TriggerRefreshErr ==
    /\ schedPc = "created"
    /\ failureCount < MaxFailureCount
    /\ lastError' = "error"
    /\ failureCount' = failureCount + 1
    /\ UNCHANGED <<config, now, timerPeriod, timerDeadline, timerFresh, currentBackoff,
                   gitCommit, schedPc, shutdownValue, rxChanged, handle, lastStart>>
    /\ UNCHANGED <<cacheVars, repoVars, restVars>>

\* start: the watch channel holds false, seen by the receiver; the handle
\* is returned; run creates interval(initial_interval), whose first tick
\* completes at once.
Start ==
    /\ schedPc = "created"
    /\ schedPc' = "select"
    /\ handle' = "held"
    /\ shutdownValue' = FALSE
    /\ rxChanged' = FALSE
    /\ timerPeriod' = config.interval
    /\ timerDeadline' = now
    /\ timerFresh' = TRUE
    /\ UNCHANGED <<config, now, currentBackoff, failureCount, gitCommit, lastError,
                   lastStart>>
    /\ UNCHANGED <<cacheVars, repoVars, restVars>>

\* Time passes while the loop waits in select! or the refresh is running.
AdvanceTime ==
    /\ now < MaxTime
    /\ schedPc \in {"select", "refreshing"}
    /\ now' = now + 1
    /\ UNCHANGED <<config, timerPeriod, timerDeadline, timerFresh, currentBackoff,
                   failureCount, gitCommit, lastError, schedPc, shutdownValue,
                   rxChanged, handle, lastStart>>
    /\ UNCHANGED <<cacheVars, repoVars, restVars>>

\* The deadline of the first tick of a timer created at time t by
\* tokio::time::interval(period): the first tick completes immediately.
FirstTickOf(t, period) == t

\* run, select! branch interval_timer.tick(): the tick is due; the timer
\* moves its deadline one period on and do_refresh starts.
TickFires ==
    /\ schedPc = "select"
    /\ now >= timerDeadline
    /\ timerDeadline' = timerDeadline + timerPeriod
    /\ timerFresh' = FALSE
    /\ lastStart' = now
    /\ schedPc' = "refreshing"
    /\ UNCHANGED <<config, now, timerPeriod, currentBackoff, failureCount, gitCommit,
                   lastError, shutdownValue, rxChanged, handle>>
    /\ UNCHANGED <<cacheVars, repoVars, restVars>>

\* do_refresh, Ok(commit): state.record_success(commit).
RefreshOk(c) ==
    /\ schedPc = "refreshing"
    /\ gitCommit' = c
    /\ lastError' = "none"
    /\ failureCount' = 0
    /\ schedPc' = "reset"
    /\ UNCHANGED <<config, now, timerPeriod, timerDeadline, timerFresh, currentBackoff,
                   shutdownValue, rxChanged, handle, lastStart>>
    /\ UNCHANGED <<cacheVars, repoVars, restVars>>

\* do_refresh, Err(e): state.record_failure(e).
RefreshErr ==
    /\ schedPc = "refreshing"
    /\ failureCount < MaxFailureCount
    /\ lastError' = "error"
    /\ failureCount' = failureCount + 1
    /\ schedPc' = "increase"
    /\ UNCHANGED <<config, now, timerPeriod, timerDeadline, timerFresh, currentBackoff,
                   gitCommit, shutdownValue, rxChanged, handle, lastStart>>
    /\ UNCHANGED <<cacheVars, repoVars, restVars>>

\* reset_backoff
ResetBackoff ==
    /\ schedPc = "reset"
    /\ currentBackoff' = config.interval
    /\ schedPc' = "adjust"
    /\ UNCHANGED <<config, now, timerPeriod, timerDeadline, timerFresh, failureCount,
                   gitCommit, lastError, shutdownValue, rxChanged, handle, lastStart>>
    /\ UNCHANGED <<cacheVars, repoVars, restVars>>

NextBackoffOffByOne(cur, fc) ==
    IF fc > config.maxFailures
    THEN Min(cur * config.multiplier, config.maxBackoff)
    ELSE cur

\* The backoff increase_backoff leaves, from the current backoff and the
\* failure count it reads.
NextBackoff(cur, fc) ==
    IF fc >= config.maxFailures
    THEN Min(cur * config.multiplier, config.maxBackoff)
    ELSE cur

\* increase_backoff
IncreaseBackoff ==
    /\ schedPc = "increase"
    /\ currentBackoff' = NextBackoff(currentBackoff, failureCount)
    /\ schedPc' = "adjust"
    /\ UNCHANGED <<config, now, timerPeriod, timerDeadline, timerFresh, failureCount,
                   gitCommit, lastError, shutdownValue, rxChanged, handle, lastStart>>
    /\ UNCHANGED <<cacheVars, repoVars, restVars>>

\* run, after do_refresh: when the backoff differs from the timer's period
\* the timer is replaced by interval(current).
AdjustInterval ==
    /\ schedPc = "adjust"
    /\ IF currentBackoff # timerPeriod
       THEN /\ timerPeriod' = currentBackoff
            /\ timerDeadline' = FirstTickOf(now, currentBackoff)
            /\ timerFresh' = TRUE
       ELSE UNCHANGED <<timerPeriod, timerDeadline, timerFresh>>
    /\ schedPc' = "select"
    /\ UNCHANGED <<config, now, currentBackoff, failureCount, gitCommit, lastError,
                   shutdownValue, rxChanged, handle, lastStart>>
    /\ UNCHANGED <<cacheVars, repoVars, restVars>>

LeavesLoopOnClosedOnly == ~rxChanged /\ handle = "dropped"

\* Does the loop leave after shutdown_rx.changed() completed? (result is
\* Err when the sender is gone and no unseen value is left.)
LeavesLoop == (~rxChanged /\ handle = "dropped") \/ shutdownValue

\* run, select! branch shutdown_rx.changed(): completes on an unseen value
\* or on a dropped sender.
ShutdownObserved ==
    /\ schedPc = "select"
    /\ rxChanged \/ handle = "dropped"
    /\ rxChanged' = FALSE
    /\ schedPc' = IF LeavesLoop THEN "exited" ELSE "select"
    /\ UNCHANGED <<config, now, timerPeriod, timerDeadline, timerFresh, currentBackoff,
                   failureCount, gitCommit, lastError, shutdownValue, handle, lastStart>>
    /\ UNCHANGED <<cacheVars, repoVars, restVars>>

\* RefreshHandle::stop: shutdown_tx.send(true), the result ignored (send
\* fails, leaving the value, once the receiver is gone).
Stop ==
    /\ handle = "held"
    /\ IF schedPc # "exited"
       THEN /\ shutdownValue' = TRUE
            /\ rxChanged' = TRUE
       ELSE UNCHANGED <<shutdownValue, rxChanged>>
    /\ UNCHANGED <<config, now, timerPeriod, timerDeadline, timerFresh, currentBackoff,
                   failureCount, gitCommit, lastError, schedPc, handle, lastStart>>
    /\ UNCHANGED <<cacheVars, repoVars, restVars>>

\* Drop for RefreshHandle: stop(), then the sender is dropped.
DropHandle ==
    /\ handle = "held"
    /\ handle' = "dropped"
    /\ IF schedPc # "exited"
       THEN /\ shutdownValue' = TRUE
            /\ rxChanged' = TRUE
       ELSE UNCHANGED <<shutdownValue, rxChanged>>
    /\ UNCHANGED <<config, now, timerPeriod, timerDeadline, timerFresh, currentBackoff,
                   failureCount, gitCommit, lastError, schedPc, lastStart>>
    /\ UNCHANGED <<cacheVars, repoVars, restVars>>

\* GitBackend::refresh on the GitState shared with the scheduler:
\* state.record_success(commit) after its own fetch and head_commit.
BackendRecordSuccess(c) ==
    /\ gitCommit' = c
    /\ lastError' = "none"
    /\ failureCount' = 0
    /\ UNCHANGED <<config, now, timerPeriod, timerDeadline, timerFresh, currentBackoff,
                   schedPc, shutdownValue, rxChanged, handle, lastStart>>
    /\ UNCHANGED <<cacheVars, repoVars, restVars>>

\* ------------------------- the scheduler's refresh on the GitRepository

\* The caller that stands for the scheduler's task, and the caller that
\* stands for a manual GitBackend::refresh running beside it.
SchedCaller == 1
BackendCaller == 2

\* The configuration of the scheduler running against the repository.
SyncConfig == [interval |-> 1, maxFailures |-> 1, multiplier |-> 2, maxBackoff |-> 5]

\* run, select! branch interval_timer.tick(): do_refresh starts and
\* refresh_repository enters repository.fetch().  (lastStart, the record
\* kept for the scheduler's own specification, is not kept here.)
SyncTickFires ==
    /\ schedPc = "select"
    /\ now >= timerDeadline
    /\ timerDeadline' = timerDeadline + timerPeriod
    /\ timerFresh' = FALSE
    /\ schedPc' = "refreshing"
    /\ callerOp' = [callerOp EXCEPT ![SchedCaller] = "fetch"]
    /\ callerPc' = [callerPc EXCEPT ![SchedCaller] = "ensure"]
    /\ callerRes' = [callerRes EXCEPT ![SchedCaller] = Res("none")]
    /\ UNCHANGED <<config, now, timerPeriod, currentBackoff, failureCount, gitCommit,
                   lastError, shutdownValue, rxChanged, handle, lastStart>>
    /\ UNCHANGED <<repoState, gitElapsed>>
    /\ UNCHANGED <<cacheVars, restVars>>

\* The operation the scheduler's task is in has returned.
SyncReturned ==
    /\ schedPc = "refreshing"
    /\ callerPc[SchedCaller] = "idle"
    /\ callerRes[SchedCaller].kind # "none"

\* refresh_repository: fetch() returned Ok, head_commit() is entered.
SyncHeadCommit ==
    /\ SyncReturned
    /\ callerOp[SchedCaller] = "fetch"
    /\ callerRes[SchedCaller].kind = "Ok"
    /\ callerOp' = [callerOp EXCEPT ![SchedCaller] = "head_commit"]
    /\ callerPc' = [callerPc EXCEPT ![SchedCaller] = "ensure"]
    /\ callerRes' = [callerRes EXCEPT ![SchedCaller] = Res("none")]
    /\ UNCHANGED <<repoState, gitElapsed>>
    /\ UNCHANGED <<cacheVars, schedVars, restVars>>

RefreshResultOfFetch(op, res) ==
    IF op = "head_commit" THEN "Ok" ELSE "Err"

\* The result of refresh_repository, from the last operation it ran and
\* that operation's result: the `?` returns a failed fetch, otherwise the
\* result of head_commit is the result.
RefreshResult(op, res) ==
    IF op = "head_commit" /\ res.kind = "Ok" THEN "Ok" ELSE "Err"

\* refresh_repository has returned: the fetch failed or head_commit is over.
SyncAttemptOver ==
    /\ SyncReturned
    /\ callerOp[SchedCaller] = "head_commit" \/ callerRes[SchedCaller].kind # "Ok"

\* do_refresh, Ok(commit): state.record_success(commit).
SyncRefreshOk(c) ==
    /\ SyncAttemptOver
    /\ RefreshResult(callerOp[SchedCaller], callerRes[SchedCaller]) = "Ok"
    /\ gitCommit' = c
    /\ lastError' = "none"
    /\ failureCount' = 0
    /\ schedPc' = "reset"
    /\ UNCHANGED <<config, now, timerPeriod, timerDeadline, timerFresh, currentBackoff,
                   shutdownValue, rxChanged, handle, lastStart>>
    /\ UNCHANGED <<cacheVars, repoVars, restVars>>

\* do_refresh, Err(e): state.record_failure(e).
SyncRefreshErr ==
    /\ SyncAttemptOver
    /\ RefreshResult(callerOp[SchedCaller], callerRes[SchedCaller]) = "Err"
    /\ failureCount < MaxFailureCount
    /\ lastError' = "error"
    /\ failureCount' = failureCount + 1
    /\ schedPc' = "increase"
    /\ UNCHANGED <<config, now, timerPeriod, timerDeadline, timerFresh, currentBackoff,
                   gitCommit, shutdownValue, rxChanged, handle, lastStart>>
    /\ UNCHANGED <<cacheVars, repoVars, restVars>>

SyncNext ==
    \/ Start
    \/ AdvanceTime
    \/ SyncTickFires
    \/ SyncHeadCommit
    \/ \E c \in Commits : SyncRefreshOk(c)
    \/ SyncRefreshErr
    \/ ResetBackoff
    \/ IncreaseBackoff
    \/ AdjustInterval
    \/ ShutdownObserved
    \/ Stop
    \/ StartOp(BackendCaller, "fetch")
    \/ \E c \in Callers : EnsureCloned(c)
    \/ \E c \in Callers : CloneStart(c)
    \/ \E c \in Callers : CloneOk(c)
    \/ \E c \in Callers, m \in CloneErrors : CloneErr(c, m)
    \/ \E c \in Callers : CloneJoinError(c)
    \/ \E c \in Callers : FetchLock(c)
    \/ \E c \in Callers : FetchOk(c)
    \/ \E c \in Callers : FetchErr(c)
    \/ \E c \in Callers : FetchJoinError(c)
    \/ \E c \in Callers, r \in ResolveResults : Resolve(c, r)

\* ----------------------------------------------------- str::to_lowercase

\* The characters with a case.
Cased(c) == c \in {"a", "A", "p", "P", "q", "m", "M", "SIGMA", "sigma", "final_sigma"}

\* char::to_lowercase of a character other than the capital sigma.
LowerChar(c) ==
    CASE c = "A" -> "a"
      [] c = "P" -> "p"
      [] c = "M" -> "m"
      [] OTHER -> c

Unlowered(s) == s

\* str::to_lowercase: every character is lower-cased; the capital sigma
\* becomes the final sigma at the end of a word (after a cased character
\* and not before one) and the small sigma elsewhere.
ToLowercase(s) ==
    [i \in 1..Len(s) |->
        IF s[i] = "SIGMA"
        THEN IF /\ i > 1 /\ Cased(s[i - 1])
                /\ (i = Len(s) \/ ~Cased(s[i + 1]))
             THEN "final_sigma" ELSE "sigma"
        ELSE LowerChar(s[i])]

\* ------------------------------------ ConfigCache: invalidation by pattern

\* Strings are sequences of characters.  CacheKey components are already
\* lower case (CacheKey::new); three keys over two apps and two profiles.
CacheKeys ==
    {k \in [app : {<<"a">>, <<"a", "p">>}, profile : {<<"a">>, <<"p">>}, label : {<<"p">>}] :
        ~(k.app = <<"a", "p">> /\ k.profile = <<"p">>)}
Values == {1, 2}

\* The patterns: literal characters, ?, * and [...].  By app, by profile,
\* by prefix, with ?, exact keys, two that match no key string, one with a
\* character class, and two that Pattern::new does not accept.
Patterns ==
    { <<"*">>,
      <<"a", ":", "*">>,
      <<"a", ":", "*", ":", "*">>,
      <<"*", ":", "a", ":", "*">>,
      <<"*", ":", "p", ":", "*">>,
      <<"a", "*", ":", "*", ":", "*">>,
      <<"a", "?", ":", "*">>,
      <<"?", ":", "?", ":", "?">>,
      <<"a", ":", "a", ":", "p">>,
      <<"a", "p", ":", "p", ":", "p">>,
      <<"p", "*">>,
      <<"a">>,
      <<"[", "a", "]", ":", "*">>,
      <<"[">>,
      <<"*", "*", "*">> }

\* No call yet, and a call with its arguments.
NoInvalidation == [op |-> "none", app |-> <<>>, profile |-> <<>>]
Call(op, app, profile) == [op |-> op, app |-> app, profile |-> profile]

\* The arguments of invalidate_by_app and of invalidate_by_app_profile.
AppArgs == {<<"a">>, <<"A">>, <<"*">>, <<"?">>, <<"[">>, <<"a", ":", "a">>}
AppProfileArgs ==
    { <<(<<"a">>), (<<"p">>)>>, <<(<<"A">>), (<<"P">>)>>, <<(<<"a">>), (<<"?">>)>>,
      <<(<<"*">>), (<<"p">>)>>, <<(<<"a">>), (<<"[">>)>> }

\* The calls that go through invalidate_by_pattern.
PatternCalls ==
    {Call("pattern", <<>>, <<>>)}
    \cup {Call("app", app, <<>>) : app \in AppArgs}
    \cup {Call("app_profile", args[1], args[2]) : args \in AppProfileArgs}

\* impl Display for CacheKey: "{app}:{profile}:{label}".
KeyToString(k) == k.app \o <<":">> \o k.profile \o <<":">> \o k.label

\* The position of the first "]" of p at or after position i (0: none).
ClosingAt(p, i) ==
    IF \E k \in i..Len(p) : p[k] = "]"
    THEN CHOOSE k \in i..Len(p) : p[k] = "]" /\ \A j \in i..(k - 1) : p[j] # "]"
    ELSE 0

\* The end of the run of "*" that starts at position i of p.
StarsEnd(p, i) ==
    CHOOSE j \in i..Len(p) :
        /\ \A k \in i..j : p[k] = "*"
        /\ j = Len(p) \/ p[j + 1] # "*"

PatternNewAnything(p, i) == TRUE

\* glob::Pattern::new(p) is Ok, scanning from position i: more than two *
\* in a row are an error, ** has to be a whole path component (the key
\* strings have no path separator), and a [ needs its ] after at least one
\* character (two after [!).
RECURSIVE PatternNew(_, _)
PatternNew(p, i) ==
    IF i > Len(p) THEN TRUE
    ELSE IF p[i] = "*"
    THEN LET j == StarsEnd(p, i)
             count == j - i + 1
         IN  IF count > 2 THEN FALSE
             ELSE IF count = 2 THEN i = 1 /\ j = Len(p)
             ELSE PatternNew(p, j + 1)
    ELSE IF p[i] = "["
    THEN LET k == IF i + 3 <= Len(p) /\ p[i + 1] = "!" THEN ClosingAt(p, i + 3)
                  ELSE IF i + 2 <= Len(p) /\ p[i + 1] # "!" THEN ClosingAt(p, i + 2)
                  ELSE 0
         IN  k # 0 /\ PatternNew(p, k + 1)
    ELSE PatternNew(p, i + 1)

\* glob::Pattern::matches with the default MatchOptions: ? is any one
\* character, * any sequence of characters (':' included), [...] one of
\* the characters listed and [!...] one not listed, every other character
\* stands for itself; the whole string has to match.
RECURSIVE GlobMatches(_, _)
GlobMatches(p, s) ==
    IF p = <<>> THEN s = <<>>
    ELSE IF Head(p) = "*"
         THEN GlobMatches(Tail(p), s) \/ (s # <<>> /\ GlobMatches(p, Tail(s)))
         ELSE IF Head(p) = "["
         THEN LET negated == Len(p) >= 4 /\ p[2] = "!"
                  k == ClosingAt(p, IF negated THEN 4 ELSE 3)
                  listed == {p[j] : j \in (IF negated THEN 3 ELSE 2)..(k - 1)}
              IN  /\ s # <<>>
                  /\ (Head(s) \in listed) # negated
                  /\ GlobMatches(SubSeq(p, k + 1, Len(p)), Tail(s))
         ELSE /\ s # <<>>
              /\ Head(p) = "?" \/ Head(p) = Head(s)
              /\ GlobMatches(Tail(p), Tail(s))

InvalInit ==
    /\ store = [k \in CacheKeys |-> None]
    /\ invPc = "idle"
    /\ invPattern = <<>>
    /\ invKeys = {}
    /\ invCount = 0
    /\ invBefore = [k \in CacheKeys |-> None]
    /\ invTouched = {}
    /\ invResult = -1
    /\ invCall = NoInvalidation

\* insert(key, value), by any task at any time.
Insert(k, v) ==
    /\ store' = [store EXCEPT ![k] = v]
    /\ invTouched' = IF invPc = "removing" THEN invTouched \cup {k} ELSE invTouched
    /\ UNCHANGED <<invPc, invPattern, invKeys, invCount, invBefore, invResult, invCall>>
    /\ UNCHANGED <<cacheVars, repoVars, schedVars, httpVars, resVars, mergeVars, listVars,
                   keyVars, stateVars, flatVars>>

EveryPresentKey(p) == {k \in CacheKeys : store[k] # None}

\* The loop over self.iter(): the keys whose string form matches.
MatchingKeys(p) ==
    {k \in CacheKeys : store[k] # None /\ GlobMatches(p, KeyToString(k))}

\* invalidate_by_app(app): the pattern "{app.to_lowercase()}:*:*".
InvalidateByApp(app) == ToLowercase(app) \o <<":", "*", ":", "*">>

\* invalidate_by_app_profile(app, profile): the pattern
\* "{app.to_lowercase()}:{profile.to_lowercase()}:*".
InvalidateByAppProfile(app, profile) ==
    ToLowercase(app) \o <<":">> \o ToLowercase(profile) \o <<":", "*">>

\* The pattern_str invalidate_by_pattern is called with: the caller's p, or
\* the one invalidate_by_app / invalidate_by_app_profile make.
PatternStr(call, p) ==
    CASE call.op = "app" -> InvalidateByApp(call.app)
      [] call.op = "app_profile" -> InvalidateByAppProfile(call.app, call.profile)
      [] OTHER -> p

\* invalidate_by_pattern, called directly with p or by invalidate_by_app /
\* invalidate_by_app_profile: with a pattern Pattern::new does not accept,
\* the return of InvalidationResult { count: 0, .. }; with any other, the
\* call up to the end of the collecting loop.
InvalidateByPattern(call, p) ==
    LET pattern_str == PatternStr(call, p)
    IN  /\ invPc = "idle"
        /\ call.op # "pattern" => p = <<>>
        /\ invCall' = call
        /\ invPattern' = pattern_str
        /\ IF PatternNew(pattern_str, 1)
           THEN /\ invPc' = "removing"
                /\ invKeys' = MatchingKeys(pattern_str)
                /\ invCount' = Cardinality(MatchingKeys(pattern_str))
                /\ invBefore' = store
                /\ invTouched' = {}
                /\ UNCHANGED <<store, invResult>>
           ELSE /\ invResult' = 0
                /\ UNCHANGED <<store, invPc, invKeys, invCount, invBefore, invTouched>>
        /\ UNCHANGED <<cacheVars, repoVars, schedVars, httpVars, resVars, mergeVars, listVars,
                       keyVars, stateVars, flatVars>>

\* One round of the second loop: self.invalidate(&key).await.
InvalidateCollected(k) ==
    /\ invPc = "removing"
    /\ k \in invKeys
    /\ store' = [store EXCEPT ![k] = None]
    /\ invKeys' = invKeys \ {k}
    /\ UNCHANGED <<invPc, invPattern, invCount, invBefore, invTouched, invResult, invCall>>
    /\ UNCHANGED <<cacheVars, repoVars, schedVars, httpVars, resVars, mergeVars, listVars,
                   keyVars, stateVars, flatVars>>

\* The second loop is over: InvalidationResult { count, .. } is returned.
InvalidationReturns ==
    /\ invPc = "removing"
    /\ invKeys = {}
    /\ invPc' = "idle"
    /\ invResult' = invCount
    /\ invBefore' = [k \in CacheKeys |-> None]
    /\ invTouched' = {}
    /\ UNCHANGED <<store, invPattern, invKeys, invCount, invCall>>
    /\ UNCHANGED <<cacheVars, repoVars, schedVars, httpVars, resVars, mergeVars, listVars,
                   keyVars, stateVars, flatVars>>

\* invalidate_by_app_profile_label(app, profile, label): the key is
\* invalidated and InvalidationResult { count: 1, patterns: [key] } returned.
InvalidateByAppProfileLabel(k) ==
    /\ invPc = "idle"
    /\ store' = [store EXCEPT ![k] = None]
    /\ invPattern' = KeyToString(k)
    /\ invResult' = 1
    /\ invCall' = Call("key", k.app, k.profile)
    /\ UNCHANGED <<invPc, invKeys, invCount, invBefore, invTouched>>
    /\ UNCHANGED <<cacheVars, repoVars, schedVars, httpVars, resVars, mergeVars, listVars,
                   keyVars, stateVars, flatVars>>

\* The handler of DELETE /cache: count = cache.entry_count(), then
\* cache.invalidate_all().  entry_count() is the cache's estimate of its
\* size: writes the cache has not processed yet are not in it.
InvalidateAll(count) ==
    /\ invPc = "idle"
    /\ store' = [k \in CacheKeys |-> None]
    /\ invPattern' = <<>>
    /\ invResult' = count
    /\ invCall' = Call("all", <<>>, <<>>)
    /\ UNCHANGED <<invPc, invKeys, invCount, invBefore, invTouched>>
    /\ UNCHANGED <<cacheVars, repoVars, schedVars, httpVars, resVars, mergeVars, listVars,
                   keyVars, stateVars, flatVars>>

InvalNext ==
    \/ \E k \in CacheKeys, v \in Values : Insert(k, v)
    \/ \E call \in PatternCalls, p \in Patterns \cup {<<>>} : InvalidateByPattern(call, p)
    \/ \E k \in CacheKeys : InvalidateCollected(k)
    \/ InvalidationReturns
    \/ \E k \in CacheKeys : InvalidateByAppProfileLabel(k)
    \/ \E count \in 0..Cardinality(CacheKeys) : InvalidateAll(count)

\* -------------------------------------------- the configuration handlers

\* Labels are sequences of characters, so that validate_label is computed.
\* The refs of the repository: f (a feature branch) and m (main).
Labels == {<<"f">>, <<"m">>}
\* The characters of the other labels of a request path: a dot, "%2E", an
\* encoded dot, and "ctl", a control character.
LabelChars == {".", "%2E", "ctl"}
\* The longest such label.
MaxLabelLen == 2
\* The labels of a request path.
PathLabels == Labels \cup UNION {[1..n -> LabelChars] : n \in 1..MaxLabelLen}

\* urlencoding::decode, one character
DecodeChar(c) == IF c = "%2E" THEN "." ELSE c
\* AppProfileLabelPath::sanitized_label
SanitizedLabel(label) == [i \in DOMAIN label |-> DecodeChar(label[i])]

ValidateLabelDotsOnly(label) ==
    ~\E i \in 1..(Len(label) - 1) : label[i] = "." /\ label[i + 1] = "."

\* validate_label(label) is Ok
ValidateLabel(label) ==
    /\ ~\E i \in 1..(Len(label) - 1) : label[i] = "." /\ label[i + 1] = "."
    /\ ~\E i \in DOMAIN label : label[i] = "ctl"
\* GitBackendConfig::default_label(): the label of GIT_DEFAULT_LABEL, which
\* the backend keeps in its configuration.
ConfiguredDefaultLabel == gitDefaultLabel
\* config_source.default_label(): the method of the trait, which GitBackend
\* does not override.
DefaultLabel == <<"m">>
\* What ConfigSource::fetch answers: Ok or a ConfigSourceError ("Git" stands
\* for the variants outside the NotFound family).
FetchOutcomes == {"Ok", "ApplicationNotFound", "ProfileNotFound", "LabelNotFound", "Git"}

\* The requests: the endpoint, the label of the path, useDefaultLabel, and
\* what path.validate() finds (an empty application or profile is drawn with
\* the labels of the repository only).
Requests ==
    [endpoint : {"app_profile_label"}, label : PathLabels, useDefaultLabel : BOOLEAN,
     valid : {"ok"}]
    \cup [endpoint : {"app_profile_label"}, label : Labels, useDefaultLabel : BOOLEAN,
          valid : {"path"}]
    \cup [endpoint : {"app_profile"}, label : {DefaultLabel}, useDefaultLabel : BOOLEAN,
          valid : {"ok", "path"}]

NoRequest == [endpoint |-> "none", label |-> <<>>, useDefaultLabel |-> FALSE,
              valid |-> "ok"]
NoResponse == [status |-> 0, label |-> <<>>]

\* The server with its source and an empty cache (or none), no request yet.
HttpInit ==
    /\ httpSource \in [Labels -> FetchOutcomes]
    /\ httpCacheOn \in BOOLEAN
    /\ httpCached = {}
    /\ httpReq = NoRequest
    /\ httpPc = "idle"
    /\ httpFirstErr = "none"
    /\ httpRetried = FALSE
    /\ httpErr = "none"
    /\ httpResp = NoResponse
    /\ gitDefaultLabel \in Labels
    /\ httpCalls = {}

\* The repository behind the source changes: a label appears, disappears,
\* or the source starts or stops failing.
SourceChanges(l, o) ==
    /\ httpSource[l] # o
    /\ httpSource' = [httpSource EXCEPT ![l] = o]
    /\ UNCHANGED <<httpCacheOn, httpCached, httpReq, httpPc, httpFirstErr, httpRetried,
                   httpErr, httpResp, gitDefaultLabel, httpCalls>>
    /\ UNCHANGED <<cacheVars, repoVars, schedVars, invVars, resVars, mergeVars, listVars,
                   keyVars, stateVars, flatVars>>

\* get_config / get_config_with_label up to the match on state.cache():
\* path.validate() and validate_label(), whose failure is BadRequest.
ReceiveRequest(r) ==
    /\ httpPc \in {"idle", "done"}
    /\ httpReq' = r
    /\ httpFirstErr' = "none"
    /\ httpRetried' = FALSE
    /\ httpCalls' = {}
    /\ IF /\ r.valid = "ok"
          /\ r.endpoint = "app_profile_label" => ValidateLabel(SanitizedLabel(r.label))
       THEN /\ httpPc' = "first"
            /\ httpErr' = "none"
            /\ httpResp' = NoResponse
       ELSE /\ httpPc' = "done"
            /\ httpErr' = "validation"
            /\ httpResp' = [status |-> 400, label |-> <<>>]
    /\ UNCHANGED <<httpSource, httpCacheOn, httpCached, gitDefaultLabel>>
    /\ UNCHANGED <<cacheVars, repoVars, schedVars, invVars, resVars, mergeVars, listVars,
                   keyVars, stateVars, flatVars>>

\* fetch_config at label l, through cache.get_or_insert_with when there is
\* a cache: a cached response is returned without asking the source.
FetchConfig(l) ==
    IF httpCacheOn /\ l \in httpCached THEN "Ok"
    ELSE IF l \in Labels THEN httpSource[l]
    ELSE "LabelNotFound"

\* What a fetch at label l uses: the cache when there is one, and the
\* source unless the cache has the response.
CallsOf(l) ==
    (IF httpCacheOn THEN {[what |-> "cache", label |-> l]} ELSE {})
    \cup (IF httpCacheOn /\ l \in httpCached THEN {}
          ELSE {[what |-> "source", label |-> l]})

\* The status of the AppError the handlers make of a failed fetch:
\* AppError::Internal on every path.
StatusOfFetchError(e) == 500

\* Does get_config_with_label go on to the default label after the fetch at
\* the requested label failed with e?  (`Err(_) if query.use_default_label`)
FallsBack(req, e) == req.useDefaultLabel

\* The first fetch: at the default label for /{app}/{profile}, at the
\* label of the path for /{app}/{profile}/{label}.
FirstFetch ==
    LET l == IF httpReq.endpoint = "app_profile" THEN DefaultLabel
             ELSE SanitizedLabel(httpReq.label)
        out == FetchConfig(l)
    IN  /\ httpPc = "first"
        /\ httpCalls' = httpCalls \cup CallsOf(l)
        /\ httpFirstErr' = IF out = "Ok" THEN "none" ELSE out
        /\ IF out = "Ok"
           THEN /\ httpPc' = "done"
                /\ httpResp' = [status |-> 200, label |-> l]
                /\ httpCached' = IF httpCacheOn THEN httpCached \cup {l} ELSE httpCached
                /\ UNCHANGED <<httpErr, httpRetried>>
           ELSE IF httpReq.endpoint = "app_profile_label" /\ FallsBack(httpReq, out)
           THEN /\ httpPc' = "fallback"
                /\ httpRetried' = TRUE
                /\ UNCHANGED <<httpResp, httpCached, httpErr>>
           ELSE /\ httpPc' = "done"
                /\ httpErr' = out
                /\ httpResp' = [status |-> StatusOfFetchError(out), label |-> <<>>]
                /\ UNCHANGED <<httpCached, httpRetried>>
        /\ UNCHANGED <<httpSource, httpCacheOn, httpReq, gitDefaultLabel>>
        /\ UNCHANGED <<cacheVars, repoVars, schedVars, invVars, resVars, mergeVars, listVars,
                   keyVars, stateVars, flatVars>>

\* get_config_with_label, the fallback arm: fetch_config at default_label().
FallbackFetch ==
    LET out == FetchConfig(DefaultLabel)
    IN  /\ httpPc = "fallback"
        /\ httpCalls' = httpCalls \cup CallsOf(DefaultLabel)
        /\ httpPc' = "done"
        /\ IF out = "Ok"
           THEN /\ httpResp' = [status |-> 200, label |-> DefaultLabel]
                /\ httpCached' = IF httpCacheOn THEN httpCached \cup {DefaultLabel}
                                 ELSE httpCached
                /\ UNCHANGED httpErr
           ELSE /\ httpErr' = out
                /\ httpResp' = [status |-> StatusOfFetchError(out), label |-> <<>>]
                /\ UNCHANGED httpCached
        /\ UNCHANGED <<httpSource, httpCacheOn, httpReq, httpFirstErr, httpRetried,
                       gitDefaultLabel>>
        /\ UNCHANGED <<cacheVars, repoVars, schedVars, invVars, resVars, mergeVars, listVars,
                   keyVars, stateVars, flatVars>>

HttpNext ==
    \/ \E l \in Labels, o \in FetchOutcomes : SourceChanges(l, o)
    \/ \E r \in Requests : ReceiveRequest(r)
    \/ FirstFetch
    \/ FallbackFetch

\* ------------------------------------------------------ ConfigFileResolver

MaxProfiles == 2

\* Names are sequences of pieces, so that "{name}-{profile}" is built as
\* format! builds it.
AppNames == {<<"myapp">>, <<"application">>}
ProfileNames == {<<"dev">>, <<"prod">>}
ProfileLists == UNION {[1..n -> ProfileNames] : n \in 0..MaxProfiles}
Queries == [app : AppNames, profiles : ProfileLists, label : {"main"}]

\* ConfigFormat::all() with each format's extensions(), in order.
Extensions == <<"yml", "yaml", "json", "properties">>

File(dir, stem, ext) == [dir |-> dir, stem |-> stem, ext |-> ext]

\* The files a repository may hold: at the root and under config/.
FileUniverse ==
    { File("", <<"application">>, "yml"),
      File("", <<"application", "-", "dev">>, "yml"),
      File("", <<"myapp">>, "yml"),
      File("", <<"myapp">>, "yaml"),
      File("", <<"myapp", "-", "dev">>, "yml"),
      File("", <<"myapp", "-", "prod">>, "json"),
      File("config", <<"application">>, "yml"),
      File("config", <<"myapp", "-", "dev">>, "properties") }

SearchPathLists == {<<>>, <<"config">>, <<"", "config">>, <<"config", "">>}

NoQuery == [app |-> <<>>, profiles |-> <<>>, label |-> "none"]
NoSources == [kind |-> "none", sources |-> <<>>]

\* ConfigFileResolver::new over a repository: any set of files, of which
\* myapp.yml and myapp.yaml may be ones that do not parse; and the query of
\* the call.
ResolverInit ==
    /\ fs \in SUBSET FileUniverse
    /\ unparseable \in SUBSET {File("", <<"myapp">>, "yml"), File("", <<"myapp">>, "yaml")}
    /\ searchPaths \in SearchPathLists
    /\ resQuery \in Queries
    /\ resResult = NoSources

\* try_read_config: the file name for a name without / with a profile.
FileName(name) == name
FileNameWithProfile(name, profile) == name \o <<"-">> \o profile

\* make_source_name: "git:{label}:{path relative to base_path}".
MakeSourceName(file, label) ==
    [scheme |-> "git", label |-> label, dir |-> file.dir, stem |-> file.stem,
     ext |-> file.ext]

TryReadLastExisting(dir, filename, label) ==
    LET found == {i \in 1..Len(Extensions) : File(dir, filename, Extensions[i]) \in fs}
    IN  IF found = {} THEN [kind |-> "none"]
        ELSE LET last == CHOOSE i \in found : \A j \in found : i >= j
                 file == File(dir, filename, Extensions[last])
             IN  IF file \in unparseable THEN [kind |-> "err"]
                 ELSE [kind |-> "some", name |-> MakeSourceName(file, label)]

\* try_read_config: the first extension whose file exists is read;
\* Ok(None) when there is none, Err when that file does not parse.
TryReadConfig(dir, filename, label) ==
    LET found == {i \in 1..Len(Extensions) : File(dir, filename, Extensions[i]) \in fs}
    IN  IF found = {} THEN [kind |-> "none"]
        ELSE LET first == CHOOSE i \in found : \A j \in found : i <= j
                 file == File(dir, filename, Extensions[first])
             IN  IF file \in unparseable THEN [kind |-> "err"]
                 ELSE [kind |-> "some", name |-> MakeSourceName(file, label)]

\* resolve, the body of the loop over the search paths: the file names in
\* the order they are tried.
FileNamesTried(q) ==
    <<FileName(<<"application">>)>>
    \o [i \in 1..Len(q.profiles) |-> FileNameWithProfile(<<"application">>, q.profiles[i])]
    \o <<FileName(q.app)>>
    \o [i \in 1..Len(q.profiles) |-> FileNameWithProfile(q.app, q.profiles[i])]

\* effective_search_paths
EffectiveSearchPaths == IF searchPaths = <<>> THEN <<"">> ELSE searchPaths

RECURSIVE TriedLaterFirst(_, _)
TriedLaterFirst(paths, q) ==
    IF paths = <<>> THEN <<>>
    ELSE TriedLaterFirst(Tail(paths), q)
         \o [i \in 1..Len(FileNamesTried(q)) |->
                 [dir |-> Head(paths), filename |-> FileNamesTried(q)[i]]]

\* resolve, the loops: every (directory, file name) tried, in order.
RECURSIVE Tried(_, _)
Tried(paths, q) ==
    IF paths = <<>> THEN <<>>
    ELSE [i \in 1..Len(FileNamesTried(q)) |->
              [dir |-> Head(paths), filename |-> FileNamesTried(q)[i]]]
         \o Tried(Tail(paths), q)

\* The sources pushed for a sequence of tried files (no read fails).
RECURSIVE Pushed(_, _)
Pushed(tried, label) ==
    IF tried = <<>> THEN <<>>
    ELSE LET r == TryReadConfig(Head(tried).dir, Head(tried).filename, label)
         IN  (IF r.kind = "some" THEN <<r.name>> ELSE <<>>) \o Pushed(Tail(tried), label)

Unreversed(s) == s

\* Vec::reverse
Reverse(s) == [i \in 1..Len(s) |-> s[Len(s) + 1 - i]]

\* resolve(query, label)
Resolved(q) ==
    LET tried == Tried(EffectiveSearchPaths, q)
    IN  IF \E i \in 1..Len(tried) :
              TryReadConfig(tried[i].dir, tried[i].filename, q.label).kind = "err"
        THEN [kind |-> "Err", sources |-> <<>>]
        ELSE [kind |-> "Ok", sources |-> Reverse(Pushed(tried, q.label))]

\* The call of resolve.
ResolveQuery ==
    /\ resResult = NoSources
    /\ resResult' = Resolved(resQuery)
    /\ UNCHANGED <<fs, unparseable, searchPaths, resQuery>>
    /\ UNCHANGED <<cacheVars, repoVars, schedVars, invVars, httpVars, mergeVars, listVars,
                   keyVars, stateVars, flatVars>>

ResolverNext == ResolveQuery

\* ------------------------------------------------ ConfigMap and deep_merge

\* The keys of the maps, and the longest dotted path asked for.
MapKeys == {"a", "b"}
MaxPathLen == 2

\* No entry under a key (IndexMap::get returns None, ConfigMap::get returns
\* None).
Absent == [absent |-> TRUE]

\* ConfigValue::Integer, ConfigValue::Array, ConfigValue::Object
Integer(i) == [int |-> i]
Array(s) == [arr |-> s]
Object(f) == [obj |-> f]

IsObject(v) == "obj" \in DOMAIN v

\* The values that are no objects, the objects of such values, and the maps
\* with an object or none under "a" and no object under "b".
Leaves == {Integer(1), Integer(2), Array(<<1>>), Array(<<2>>)}
Objects == {Object(f) : f \in [MapKeys -> Leaves \cup {Absent}]}
ConfigMaps ==
    {m \in [MapKeys -> Leaves \cup Objects \cup {Absent}] : ~IsObject(m["b"])}

\* ConfigMap::new()
EmptyMap == [k \in MapKeys |-> Absent]

\* No map (no call has returned one).
NoMap == [none |-> TRUE]

\* A dotted path, as the sequence path.split('.') yields ("" is <<>>).
Paths == UNION {[1..n -> MapKeys] : n \in 0..MaxPathLen}

\* ConfigMap::get, the loop over the parts after the first.
RECURSIVE Descend(_, _)
Descend(v, parts) ==
    IF parts = <<>> THEN v
    ELSE IF ~IsObject(v) THEN Absent
    ELSE IF v.obj[Head(parts)] = Absent THEN Absent
    ELSE Descend(v.obj[Head(parts)], Tail(parts))

\* ConfigMap::get(path)
Get(map, path) ==
    IF path = <<>> THEN Absent
    ELSE IF map[Head(path)] = Absent THEN Absent
    ELSE Descend(map[Head(path)], Tail(path))

RECURSIVE MergeValuesConcat(_, _)
MergeValuesConcat(base_val, overlay_val) ==
    IF IsObject(base_val) /\ IsObject(overlay_val)
    THEN Object([k \in MapKeys |->
             IF overlay_val.obj[k] = Absent THEN base_val.obj[k]
             ELSE IF base_val.obj[k] = Absent THEN overlay_val.obj[k]
             ELSE MergeValuesConcat(base_val.obj[k], overlay_val.obj[k])])
    ELSE IF "arr" \in DOMAIN base_val /\ "arr" \in DOMAIN overlay_val
    THEN Array(base_val.arr \o overlay_val.arr)
    ELSE overlay_val

\* merge_values(base_val, overlay_val): the value base_val holds afterwards.
RECURSIVE MergeValues(_, _)
MergeValues(base_val, overlay_val) ==
    IF IsObject(base_val) /\ IsObject(overlay_val)
    THEN Object([k \in MapKeys |->
             IF overlay_val.obj[k] = Absent THEN base_val.obj[k]
             ELSE IF base_val.obj[k] = Absent THEN overlay_val.obj[k]
             ELSE MergeValues(base_val.obj[k], overlay_val.obj[k])])
    ELSE overlay_val

OverlayOnly(base, overlay) == overlay

\* deep_merge(base, overlay): the map base holds afterwards.
DeepMerge(base, overlay) ==
    [k \in MapKeys |->
        IF overlay[k] = Absent THEN base[k]
        ELSE IF base[k] = Absent THEN overlay[k]
        ELSE MergeValues(base[k], overlay[k])]

\* Two maps, not merged yet.
MergeInit ==
    /\ mergeBase \in ConfigMaps
    /\ mergeOverlay \in ConfigMaps
    /\ mergeResult = NoMap

\* The call deep_merge(&mut base, &overlay).
DeepMergeCall ==
    /\ mergeResult = NoMap
    /\ mergeResult' = DeepMerge(mergeBase, mergeOverlay)
    /\ UNCHANGED <<mergeBase, mergeOverlay>>
    /\ UNCHANGED <<cacheVars, repoVars, schedVars, invVars, httpVars, resVars, listVars,
                   keyVars, stateVars, flatVars>>

MergeNext == DeepMergeCall

\* ------------------------------------------------------ PropertySourceList

\* The most calls of add.
MaxSources == 3

\* PropertySource: priority and config (name and origin play no part in
\* add and merge).
Priorities == {0, 10}
SourceConfigs ==
    {m \in ConfigMaps :
        /\ m["a"] \in {Integer(1), Integer(2),
                       Object([a |-> Integer(1), b |-> Absent]),
                       Object([a |-> Integer(2), b |-> Integer(1)])}
        /\ m["b"] \in {Absent, Integer(1)}}
PropertySources == [priority : Priorities, config : SourceConfigs]

InsertBeforeEqual(sorted, x) ==
    LET n == Cardinality({i \in 1..Len(sorted) : sorted[i].priority < x.priority})
    IN  SubSeq(sorted, 1, n) \o <<x>> \o SubSeq(sorted, n + 1, Len(sorted))

\* One step of the stable sort: x goes behind the elements whose key is
\* not larger than its own.
InsertByKey(sorted, x) ==
    LET n == Cardinality({i \in 1..Len(sorted) : sorted[i].priority <= x.priority})
    IN  SubSeq(sorted, 1, n) \o <<x>> \o SubSeq(sorted, n + 1, Len(sorted))

\* sources.sort_by_key(|s| s.priority), a stable sort.
RECURSIVE SortByKey(_)
SortByKey(s) ==
    IF s = <<>> THEN <<>>
    ELSE InsertByKey(SortByKey(SubSeq(s, 1, Len(s) - 1)), s[Len(s)])

\* merge(), the loop: result after the sources srcs were merged into it.
RECURSIVE MergeFrom(_, _)
MergeFrom(result, srcs) ==
    IF srcs = <<>> THEN result
    ELSE MergeFrom(DeepMerge(result, Head(srcs).config), Tail(srcs))

\* PropertySourceList::new()
ListInit ==
    /\ sources = <<>>
    /\ added = <<>>
    /\ listMerged = NoMap

\* add(source)
Add(source) ==
    /\ Len(added) < MaxSources
    /\ listMerged = NoMap
    /\ sources' = SortByKey(Append(sources, source))
    /\ added' = Append(added, source)
    /\ UNCHANGED listMerged
    /\ UNCHANGED <<cacheVars, repoVars, schedVars, invVars, httpVars, resVars, mergeVars,
                   keyVars, stateVars, flatVars>>

\* merge(), called after the adds.
Merge ==
    /\ listMerged = NoMap
    /\ listMerged' = MergeFrom(EmptyMap, sources)
    /\ UNCHANGED <<sources, added>>
    /\ UNCHANGED <<cacheVars, repoVars, schedVars, invVars, httpVars, resVars, mergeVars,
                   keyVars, stateVars, flatVars>>

ListNext ==
    \/ \E source \in PropertySources : Add(source)
    \/ Merge

\* ---------------------------------------------------------------- CacheKey

\* The longest component of a key.
MaxStrLen == 2

\* Characters: ASCII letters in both cases, an ASCII character that is no
\* letter, and the Greek capital and small sigma (a letter outside ASCII).
Chars == {"a", "A", "-", "SIGMA", "sigma"}
Strings == UNION {[1..n -> Chars] : n \in 1..MaxStrLen}

\* The components handed to CacheKey::new.
RawKeysA == [app : Strings, profile : {<<"P">>}, label : {<<"m">>, <<"M">>}]
RawKeysB == [app : Strings, profile : {<<"p">>, <<"P">>, <<"q">>}, label : {<<"m">>}]

NoKey == [app |-> <<>>, profile |-> <<>>, label |-> <<>>]

\* CacheKey::new(app, profile, label)
CacheKeyNew(raw) ==
    [app |-> ToLowercase(raw.app),
     profile |-> ToLowercase(raw.profile),
     label |-> ToLowercase(raw.label)]

\* derive(Hash): the hash is that of the three fields in order.
HashOf(k) == <<k.app, k.profile, k.label>>

\* The requests GET /{app}/{profile}/{label} the handler is given: two
\* applications, one of them in two spellings, a profile and a label in two
\* spellings each.
ServeRequests ==
    [app : {<<"a">>, <<"A">>, <<"q">>}, profile : {<<"p">>, <<"P">>}, label : {<<"m">>, <<"M">>}]
ServeKeys == {CacheKeyNew(r) : r \in ServeRequests}

\* Nothing cached, no request served.
ServeInit ==
    /\ srvCache = [k \in ServeKeys |-> NoKey]
    /\ srvReq = NoKey
    /\ srvResp = NoKey

KeyInit ==
    /\ rawA \in RawKeysA
    /\ rawB \in RawKeysB
    /\ keyA = NoKey
    /\ keyB = NoKey
    /\ ServeInit

\* let key1 = CacheKey::new(..)
NewKeyA ==
    /\ keyA = NoKey
    /\ keyA' = CacheKeyNew(rawA)
    /\ UNCHANGED <<rawA, rawB, keyB, srvCache, srvReq, srvResp>>
    /\ UNCHANGED <<cacheVars, repoVars, schedVars, invVars, httpVars, resVars, mergeVars, listVars,
                   stateVars, flatVars>>

\* let key2 = CacheKey::new(..)
NewKeyB ==
    /\ keyB = NoKey
    /\ keyB' = CacheKeyNew(rawB)
    /\ UNCHANGED <<rawA, rawB, keyA, srvCache, srvReq, srvResp>>
    /\ UNCHANGED <<cacheVars, repoVars, schedVars, invVars, httpVars, resVars, mergeVars, listVars,
                   stateVars, flatVars>>

KeyNext == NewKeyA \/ NewKeyB

\* get_or_insert_with(cache_key, fetch_config(app, profiles, label)): the
\* response stored under the key if there is one, otherwise the one
\* fetch_config builds for the application, profiles and label of the
\* request (ConfigResult::new(query.application(), query.profiles(), label)).
ServedFor(key, r) == IF srvCache[key] # NoKey THEN srvCache[key] ELSE r

\* get_config_with_label with the cache enabled: the key is made of the
\* path's app, profiles and label by CacheKey::new, the fetch is called
\* with them as they are in the path.
GetConfigWithLabel(r) ==
    LET cache_key == CacheKeyNew(r)
    IN  /\ srvReq' = r
        /\ srvResp' = ServedFor(cache_key, r)
        /\ srvCache' = [srvCache EXCEPT ![cache_key] = ServedFor(cache_key, r)]
        /\ UNCHANGED <<rawA, rawB, keyA, keyB>>
        /\ UNCHANGED <<cacheVars, repoVars, schedVars, invVars, httpVars, resVars, mergeVars,
                       listVars, stateVars, flatVars>>

\* cache.invalidate(key), or the entry's expiry.
ServeInvalidate(key) ==
    /\ srvCache[key] # NoKey
    /\ srvCache' = [srvCache EXCEPT ![key] = NoKey]
    /\ UNCHANGED <<rawA, rawB, keyA, keyB, srvReq, srvResp>>
    /\ UNCHANGED <<cacheVars, repoVars, schedVars, invVars, httpVars, resVars, mergeVars,
                   listVars, stateVars, flatVars>>

ServeNext ==
    \/ \E r \in ServeRequests : GetConfigWithLabel(r)
    \/ \E key \in ServeKeys : ServeInvalidate(key)

KeyIdle ==
    /\ rawA = NoKey
    /\ rawB = NoKey
    /\ keyA = NoKey
    /\ keyB = NoKey
    /\ ServeInit

\* ------------------------------------------------- GitState, called directly

\* The messages record_failure is called with.
StateErrors == {"error", "timeout"}

\* GitState::new()
StateInit ==
    /\ lastRefresh = -1
    /\ healthy = "none"
    /\ failureCalls = 0

\* The fields of the scheduler that the calls on GitState leave alone.
SchedRest == <<config, timerPeriod, timerDeadline, timerFresh, currentBackoff,
               schedPc, shutdownValue, rxChanged, handle, lastStart>>

\* The rest of the module's variables, for the calls on GitState.
StateFrame ==
    UNCHANGED <<SchedRest, cacheVars, repoVars, invVars, httpVars, resVars,
                mergeVars, listVars, keyVars, flatVars>>

\* record_success(commit)
RecordSuccess(c) ==
    /\ gitCommit' = c
    /\ lastRefresh' = now
    /\ lastError' = "none"
    /\ failureCount' = 0
    /\ failureCalls' = 0
    /\ UNCHANGED <<now, healthy>>
    /\ StateFrame

KeepsCountOnFailure(n) == n

\* record_failure: *failure_count += 1
CountAfterFailure(n) == n + 1

\* record_failure(error)
RecordFailure(e) ==
    /\ failureCount < MaxFailureCount
    /\ lastError' = e
    /\ failureCount' = CountAfterFailure(failureCount)
    /\ failureCalls' = failureCalls + 1
    /\ UNCHANGED <<now, gitCommit, lastRefresh, healthy>>
    /\ StateFrame

\* set_commit(sha)
SetCommit(c) ==
    /\ gitCommit' = c
    /\ UNCHANGED <<now, lastRefresh, lastError, failureCount, healthy, failureCalls>>
    /\ StateFrame

\* reset()
Reset ==
    /\ gitCommit' = None
    /\ lastRefresh' = -1
    /\ lastError' = "none"
    /\ failureCount' = 0
    /\ failureCalls' = 0
    /\ UNCHANGED <<now, healthy>>
    /\ StateFrame

\* is_initialized()
IsInitialized == gitCommit # None

\* is_healthy(): is_initialized() && last_error is None
IsHealthy == IsInitialized /\ lastError = "none"

\* A call of is_healthy().
CallIsHealthy ==
    /\ healthy' = IF IsHealthy THEN "true" ELSE "false"
    /\ UNCHANGED <<now, gitCommit, lastRefresh, lastError, failureCount, failureCalls>>
    /\ StateFrame

\* Time passes between the calls.
StateTimePasses ==
    /\ now < MaxTime
    /\ now' = now + 1
    /\ UNCHANGED <<gitCommit, lastRefresh, lastError, failureCount, healthy, failureCalls>>
    /\ StateFrame

StateNext ==
    \/ \E c \in Commits : RecordSuccess(c)
    \/ \E e \in StateErrors : RecordFailure(e)
    \/ \E c \in Commits : SetCommit(c)
    \/ Reset
    \/ CallIsHealthy
    \/ StateTimePasses

StateIdle == StateInit

\* ------------------- ConfigMap::get, flatten_config_map, the response source

\* Strings are sequences of characters here, so that split('.') and
\* format!("{}.{}") are computed.
PathChars == {"a", "."}
\* The longest path get is called with.
MaxPathChars == 5
PathStrings == UNION {[1..n -> PathChars] : n \in 0..MaxPathChars}

\* The keys of the maps: of the top level (one of them with a dot, as a
\* YAML or JSON file may have it) and of the objects.
TopKeys == {<<"a">>, <<"a", ".", "a">>}
InnerKeys == {<<"a">>, <<"b">>}

\* IndexMap<String, ConfigValue> with keys of K and values of V: entries in
\* insertion order, no key twice.
EntrySeqs(K, V) ==
    {s \in UNION {[1..n -> [key : K, value : V]] : n \in 0..Cardinality(K)} :
        \A i, j \in DOMAIN s : i # j => s[i].key # s[j].key}

\* The values: those that are no objects, the objects of the second level
\* and the objects of the first level.
FlatLeaves == {Integer(1), Integer(2), Array(<<Integer(1)>>)}
DeepObjects == {Object(<<[key |-> <<"a">>, value |-> Integer(1)]>>)}
InnerObjects ==
    {Object(s) : s \in EntrySeqs(InnerKeys, {Integer(1), Integer(2)} \cup DeepObjects)}
FlatConfigs == {[inner |-> s] : s \in EntrySeqs(TopKeys, FlatLeaves \cup InnerObjects)}

NoFlat == [none |-> TRUE]
NoCall == [nocall |-> TRUE]
NoSource == [nosource |-> TRUE]

\* IndexMap::get(key)
IndexGet(entries, key) ==
    IF \E i \in DOMAIN entries : entries[i].key = key
    THEN entries[CHOOSE i \in DOMAIN entries : entries[i].key = key].value
    ELSE Absent

\* IndexMap::insert(key, value): the value of an entry with that key is
\* replaced where the entry is, a new entry goes to the end.
IndexInsert(entries, key, value) ==
    IF \E i \in DOMAIN entries : entries[i].key = key
    THEN [i \in DOMAIN entries |->
             IF entries[i].key = key THEN [key |-> key, value |-> value] ELSE entries[i]]
    ELSE Append(entries, [key |-> key, value |-> value])

\* path.contains('.')
ContainsDot(path) == \E i \in DOMAIN path : path[i] = "."

\* path.split('.').collect(): the pieces between the dots, empty ones too.
RECURSIVE SplitDot(_)
SplitDot(path) ==
    IF ~ContainsDot(path) THEN <<path>>
    ELSE LET d == CHOOSE i \in DOMAIN path :
                      path[i] = "." /\ \A j \in 1..(i - 1) : path[j] # "."
         IN  <<SubSeq(path, 1, d - 1)>> \o SplitDot(SubSeq(path, d + 1, Len(path)))

\* ConfigMap::get, the loop `for part in &parts[1..]`.
RECURSIVE GetParts(_, _)
GetParts(current_value, parts) ==
    IF parts = <<>> THEN current_value
    ELSE IF ~IsObject(current_value) THEN Absent
    ELSE IF IndexGet(current_value.obj, Head(parts)) = Absent THEN Absent
    ELSE GetParts(IndexGet(current_value.obj, Head(parts)), Tail(parts))

GetPathLiteral(configMap, path) == IndexGet(configMap.inner, path)

\* ConfigMap::get(path)
GetPath(configMap, path) ==
    IF path = <<>> THEN Absent
    ELSE IF ~ContainsDot(path) THEN IndexGet(configMap.inner, path)
    ELSE LET parts == SplitDot(path)
         IN  IF IndexGet(configMap.inner, parts[1]) = Absent THEN Absent
             ELSE GetParts(IndexGet(configMap.inner, parts[1]), Tail(parts))

\* format!("{}.{}", prefix, curr_key)
NewKey(prefix, curr_key) == prefix \o <<".">> \o curr_key

\* flatten_value(prefix, value, target) and its loop over the entries of
\* an object: the target afterwards.
RECURSIVE FlattenValue(_, _, _)
RECURSIVE FlattenEntries(_, _, _)
FlattenValue(prefix, value, target) ==
    IF IsObject(value) THEN FlattenEntries(prefix, value.obj, target)
    ELSE IndexInsert(target, prefix, value)
FlattenEntries(prefix, entries, target) ==
    IF entries = <<>> THEN target
    ELSE FlattenEntries(prefix, Tail(entries),
             FlattenValue(NewKey(prefix, Head(entries).key), Head(entries).value, target))

\* flatten_config_map, the loop over config.as_inner().
RECURSIVE FlattenFrom(_, _)
FlattenFrom(entries, flat_map) ==
    IF entries = <<>> THEN flat_map
    ELSE FlattenFrom(Tail(entries),
             FlattenValue(Head(entries).key, Head(entries).value, flat_map))

\* flatten_config_map(config)
FlattenConfigMap(configMap) == FlattenFrom(configMap.inner, <<>>)

\* config_value_to_json: serde_json::Value of a ConfigValue (an object is a
\* serde_json::Map, which keeps no insertion order).
RECURSIVE ConfigValueToJson(_)
ConfigValueToJson(value) ==
    IF "int" \in DOMAIN value THEN [number |-> value.int]
    ELSE IF "arr" \in DOMAIN value
    THEN [array |-> [i \in DOMAIN value.arr |-> ConfigValueToJson(value.arr[i])]]
    ELSE [object |-> {[key |-> value.obj[i].key,
                       value |-> ConfigValueToJson(value.obj[i].value)] :
                          i \in DOMAIN value.obj}]

\* fetch_config, the source of one PropertySourceResponse: the HashMap
\* collected from ps.config.as_inner().
SourceOf(configMap) ==
    {[key |-> configMap.inner[i].key, value |-> ConfigValueToJson(configMap.inner[i].value)] :
        i \in DOMAIN configMap.inner}

\* A config map as a file of the repository is parsed into; nothing was
\* called on it yet.
FlatInit ==
    /\ flatConfig \in FlatConfigs
    /\ flatResult = NoFlat
    /\ getPath = <<>>
    /\ getResult = NoCall
    /\ respSource = NoSource

Uncalled == flatResult = NoFlat /\ getResult = NoCall /\ respSource = NoSource

\* The call flatten_config_map(&config).
FlattenCall ==
    /\ Uncalled
    /\ flatResult' = [entries |-> FlattenConfigMap(flatConfig)]
    /\ UNCHANGED <<flatConfig, getPath, getResult, respSource>>
    /\ UNCHANGED <<cacheVars, repoVars, schedVars, invVars, httpVars, resVars, mergeVars,
                   listVars, keyVars, stateVars>>

\* The call config.get(path).
GetCall(path) ==
    /\ Uncalled
    /\ getPath' = path
    /\ getResult' = GetPath(flatConfig, path)
    /\ UNCHANGED <<flatConfig, flatResult, respSource>>
    /\ UNCHANGED <<cacheVars, repoVars, schedVars, invVars, httpVars, resVars, mergeVars,
                   listVars, keyVars, stateVars>>

\* fetch_config on a source with this config: the response's source map.
FetchConfigSource ==
    /\ Uncalled
    /\ respSource' = [source |-> SourceOf(flatConfig)]
    /\ UNCHANGED <<flatConfig, flatResult, getPath, getResult>>
    /\ UNCHANGED <<cacheVars, repoVars, schedVars, invVars, httpVars, resVars, mergeVars,
                   listVars, keyVars, stateVars>>

FlatNext ==
    \/ FlattenCall
    \/ \E path \in PathStrings : GetCall(path)
    \/ FetchConfigSource

FlatIdle ==
    /\ flatConfig = [inner |-> <<>>]
    /\ flatResult = NoFlat
    /\ getPath = <<>>
    /\ getResult = NoCall
    /\ respSource = NoSource

\* -------------------------------------------------------- specifications

\* The components at rest (the value their variables keep in the
\* specifications of the other components).
CacheIdle == CacheInit

RepoIdle ==
    /\ repoState = St("Ready")
    /\ callerOp = [c \in Callers |-> "none"]
    /\ callerPc = [c \in Callers |-> "idle"]
    /\ callerRes = [c \in Callers |-> Res("none")]
    /\ gitElapsed = [c \in Callers |-> 0]

SchedIdle ==
    /\ config = [interval |-> 1, maxFailures |-> 1, multiplier |-> 2, maxBackoff |-> 5]
    /\ now = 0
    /\ timerPeriod = 1
    /\ timerDeadline = 0
    /\ timerFresh = TRUE
    /\ currentBackoff = 1
    /\ failureCount = 0
    /\ gitCommit = None
    /\ lastError = "none"
    /\ schedPc = "exited"
    /\ shutdownValue = FALSE
    /\ rxChanged = FALSE
    /\ handle = "dropped"
    /\ lastStart = -1

InvalIdle == InvalInit

HttpIdle ==
    /\ httpSource = [l \in Labels |-> "Ok"]
    /\ httpCacheOn = FALSE
    /\ httpCached = {}
    /\ httpReq = NoRequest
    /\ httpPc = "idle"
    /\ httpFirstErr = "none"
    /\ httpRetried = FALSE
    /\ httpErr = "none"
    /\ httpResp = NoResponse
    /\ gitDefaultLabel = <<"m">>
    /\ httpCalls = {}

ResolverIdle ==
    /\ fs = {}
    /\ unparseable = {}
    /\ searchPaths = <<>>
    /\ resQuery = NoQuery
    /\ resResult = NoSources

MergeIdle ==
    /\ mergeBase = NoMap
    /\ mergeOverlay = NoMap
    /\ mergeResult = NoMap

ListIdle ==
    /\ sources = <<>>
    /\ added = <<>>
    /\ listMerged = NoMap

RestIdle ==
    /\ InvalIdle /\ HttpIdle /\ ResolverIdle /\ MergeIdle /\ ListIdle
    /\ KeyIdle /\ StateIdle /\ FlatIdle

InitCache == CacheInit /\ RepoIdle /\ SchedIdle /\ RestIdle

InitTtl == TtlInit /\ RepoIdle /\ SchedIdle /\ RestIdle

InitRepo == CacheIdle /\ RepoInit /\ SchedIdle /\ RestIdle

InitSched == CacheIdle /\ RepoIdle /\ SchedInit /\ RestIdle

\* The scheduler, not started yet, and the repository it refreshes.
InitSync == CacheIdle /\ RepoInit /\ SchedInit /\ config = SyncConfig /\ RestIdle

InitInval == CacheIdle /\ RepoIdle /\ SchedIdle /\ InvalInit /\ HttpIdle /\ ResolverIdle /\ MergeIdle /\ ListIdle
    /\ KeyIdle /\ StateIdle /\ FlatIdle

InitHttp == CacheIdle /\ RepoIdle /\ SchedIdle /\ InvalIdle /\ HttpInit /\ ResolverIdle /\ MergeIdle /\ ListIdle
    /\ KeyIdle /\ StateIdle /\ FlatIdle

InitResolver == CacheIdle /\ RepoIdle /\ SchedIdle /\ InvalIdle /\ HttpIdle /\ ResolverInit /\ MergeIdle /\ ListIdle
    /\ KeyIdle /\ StateIdle /\ FlatIdle

InitMerge ==
    /\ CacheIdle /\ RepoIdle /\ SchedIdle
    /\ InvalIdle /\ HttpIdle /\ ResolverIdle /\ MergeInit /\ ListIdle
    /\ KeyIdle /\ StateIdle /\ FlatIdle

InitList ==
    /\ CacheIdle /\ RepoIdle /\ SchedIdle
    /\ InvalIdle /\ HttpIdle /\ ResolverIdle /\ MergeIdle /\ ListInit
    /\ KeyIdle /\ StateIdle /\ FlatIdle

InitKey ==
    /\ CacheIdle /\ RepoIdle /\ SchedIdle
    /\ InvalIdle /\ HttpIdle /\ ResolverIdle /\ MergeIdle /\ ListIdle
    /\ KeyInit /\ StateIdle /\ FlatIdle

\* GitState::new(), and nothing else running.
InitState == CacheIdle /\ RepoIdle /\ SchedIdle /\ RestIdle

InitServe == CacheIdle /\ RepoIdle /\ SchedIdle /\ RestIdle

InitFlat ==
    /\ CacheIdle /\ RepoIdle /\ SchedIdle
    /\ InvalIdle /\ HttpIdle /\ ResolverIdle /\ MergeIdle /\ ListIdle
    /\ KeyIdle /\ StateIdle /\ FlatInit

SchedNext ==
    \/ \E c \in Commits : TriggerRefreshOk(c)
    \/ TriggerResetBackoff
    \/ TriggerRefreshErr
    \/ Start
    \/ AdvanceTime
    \/ TickFires
    \/ \E c \in Commits : RefreshOk(c)
    \/ RefreshErr
    \/ ResetBackoff
    \/ IncreaseBackoff
    \/ AdjustInterval
    \/ ShutdownObserved
    \/ Stop
    \/ DropHandle
    \/ \E c \in Commits : BackendRecordSuccess(c)

SpecCache == InitCache /\ [][CacheNext]_vars

SpecTtl == InitTtl /\ [][TtlNext]_vars

SpecStale == InitCache /\ [][StaleNext]_vars

SpecRepo == InitRepo /\ [][RepoNext]_vars

SpecRepoTimed == InitRepo /\ [][RepoTimedNext]_vars

SpecSched == InitSched /\ [][SchedNext]_vars

SpecSync == InitSync /\ [][SyncNext]_vars

SpecInval == InitInval /\ [][InvalNext]_vars

SpecHttp == InitHttp /\ [][HttpNext]_vars

SpecResolver == InitResolver /\ [][ResolverNext]_vars

SpecMerge == InitMerge /\ [][MergeNext]_vars

SpecList == InitList /\ [][ListNext]_vars

SpecKey == InitKey /\ [][KeyNext]_vars

SpecServe == InitServe /\ [][ServeNext]_vars

SpecState == InitState /\ [][StateNext]_vars

SpecFlat == InitFlat /\ [][FlatNext]_vars

\* The refresh and the steps after it complete (the blocking Git calls are
\* taken to return); select! polls its ready branches in random order, so
\* a shutdown branch that is ready again and again is taken.
SpecSchedFair ==
    /\ InitSched
    /\ [][SchedNext]_vars
    /\ WF_vars((\E c \in Commits : RefreshOk(c)) \/ RefreshErr)
    /\ WF_vars(ResetBackoff \/ IncreaseBackoff \/ AdjustInterval)
    /\ SF_vars(ShutdownObserved)

\* ------------------------------------------------- ConfigCache: the claims

\* The call of task t on key k has returned a result to its caller.
Returned(t, k) ==
    /\ taskPc[t] = "idle"
    /\ taskKey[t] = k
    /\ taskRes[t].kind \in {"ok", "err"}

BuildsOf(k) == {b \in BuildIds : builds[b].key = k}

\* No build of k failed or was dropped and no entry of k was ever removed.
Undisturbed(k) ==
    /\ ~evicted[k]
    /\ \A b \in BuildsOf(k) : builds[b].status \in {"pending", "ok"}

\* C1: for calls issued concurrently on a key that is not in the cache (and
\* whose build neither fails nor is dropped, the entry not being removed),
\* build is invoked exactly once and every caller receives the value that
\* one build produced.
C1_SingleFlight ==
    \A k \in Keys : Undisturbed(k) =>
        /\ callCount[k] <= 1
        /\ \A t \in Tasks : Returned(t, k) =>
              /\ callCount[k] = 1
              /\ taskRes[t].kind = "ok"
              /\ taskRes[t].val \in BuildsOf(k)
              /\ builds[taskRes[t].val].status = "ok"
        /\ \A t1, t2 \in Tasks :
              Returned(t1, k) /\ Returned(t2, k) => taskRes[t1].val = taskRes[t2].val

\* Every task has its value for one key: one built it, another joined the
\* build in flight.
C1_Witness ==
    \E k \in Keys :
        /\ Undisturbed(k)
        /\ callCount[k] = 1
        /\ \A t \in Tasks : Returned(t, k)
        /\ \E t1, t2 \in Tasks :
              /\ taskRes[t1].via = "built"
              /\ taskRes[t2].via = "joined"

\* C5: when the build of a key fails, every caller waiting on it receives
\* the failure, nothing is stored for the key by that build, and the next
\* get_or_insert_with on the key (no entry, nothing in flight) invokes
\* build again.
C5_FailureResults ==
    /\ \A t \in Tasks :
          taskRes[t].via \in {"built", "joined"} =>
              (taskRes[t].kind = "err" <=> builds[taskRes[t].val].status = "err")
    /\ \A k \in Keys : cache[k] # None => builds[cache[k]].status = "ok"

C5_WaitersFail ==
    \A t \in Tasks :
        (/\ taskPc[t] = "waiting"
         /\ builds[taskWait[t]].status = "err"
         /\ taskPc'[t] # "waiting")
        => taskRes'[t].kind \in {"err", "dropped"}

C5_NextCallRebuilds ==
    \A t \in Tasks :
        (/\ taskPc[t] = "miss"
         /\ taskPc'[t] # "miss"
         /\ taskRes'[t].kind # "dropped"
         /\ cache[taskKey[t]] = None
         /\ waiters[taskKey[t]] = None
         /\ \E b \in BuildsOf(taskKey[t]) : builds[b].status = "err")
        => /\ taskPc'[t] = "building"
           /\ callCount'[taskKey[t]] = callCount[taskKey[t]] + 1

C5_FailureNotStored ==
    /\ []C5_FailureResults
    /\ [][C5_WaitersFail /\ C5_NextCallRebuilds]_vars

\* A build failed, a caller that waited on it has the failure, nothing is
\* stored, and a later call has started the build again.
C5_Witness ==
    \E k \in Keys, t1, t2 \in Tasks :
        /\ Returned(t1, k)
        /\ taskRes[t1] = [kind |-> "err", val |-> 1, via |-> "joined"]
        /\ builds[1] = [key |-> k, status |-> "err", waitersAtAbort |-> 0]
        /\ cache[k] = None
        /\ taskPc[t2] = "building"
        /\ taskKey[t2] = k
        /\ callCount[k] = 2

\* C10: when the request that started a build is dropped while other
\* callers wait on the key, the build is not started a second time (no
\* failure and no removal of the entry being involved).
C10_NoSecondBuild ==
    \A k \in Keys :
        (/\ ~evicted[k]
         /\ \A b \in BuildsOf(k) : builds[b].status # "err"
         /\ \A b \in BuildsOf(k) :
               builds[b].status = "aborted" => builds[b].waitersAtAbort > 0)
        => callCount[k] <= 1

\* C34: after invalidate(key) has returned, a later get for the key never
\* returns a value made by a build that started before the invalidation
\* was called.
C34_NoValueOfEarlierBuild ==
    \A t \in Tasks :
        (taskRes[t].via = "get" /\ taskRes[t].kind = "ok") =>
            taskRes[t].val \notin invalidatedBuilds

\* ----------------------------------------------- GitRepository: the claims

AllowedEdges ==
    {<<"NotCloned", "Cloning">>, <<"Cloning", "Ready">>, <<"Cloning", "Error">>,
     <<"Ready", "Updating">>, <<"Updating", "Ready">>}

\* C2: under any interleaving of concurrent ensure_cloned, fetch, checkout
\* and head_commit calls, the repository state changes only along
\* NotCloned->Cloning, Cloning->Ready, Cloning->Error, Ready->Updating and
\* Updating->Ready.
C2_OnlyFsmEdges ==
    [][repoState' # repoState => <<repoState.tag, repoState'.tag>> \in AllowedEdges]_vars

\* The callers whose clone_blocking or fetch_blocking is running.
GitOpsInProgress == {c \in Callers : callerPc[c] \in {"cloning", "fetching"}}

\* C3: at most one clone or fetch is in progress on the repository at any
\* time.
C3_OneGitOperation == Cardinality(GitOpsInProgress) <= 1

\* C6: every fetch that moved the state to Updating has put it back to
\* Ready when it returns, with success or with an error.
C6_FetchRestoresReady ==
    [][\A c \in Callers :
          (callerPc[c] = "fetching" /\ callerPc'[c] # "fetching")
          => repoState' = St("Ready")]_vars

\* C7: ensure_cloned returns Ok when the state is Ready, starts a clone when
\* it is NotCloned, fails with Refreshing when it is Cloning or Updating and
\* with SourceUnavailable(msg) when it is Error(msg); its look at the state
\* leaves the state unchanged.
C7_Dispatch(c) ==
    /\ repoState' = repoState
    /\ repoState.tag = "Ready" =>
          /\ callerOp[c] = "ensure_cloned" =>
                callerPc'[c] = "idle" /\ callerRes'[c] = [kind |-> "Ok", msg |-> ""]
          /\ callerOp[c] = "fetch" => callerPc'[c] = "fetch_lock"
          /\ callerOp[c] \in {"checkout", "head_commit"} => callerPc'[c] = "resolving"
    /\ repoState.tag = "NotCloned" => callerPc'[c] = "clone_start"
    /\ repoState.tag \in {"Cloning", "Updating"} =>
          callerPc'[c] = "idle" /\ callerRes'[c] = [kind |-> "Refreshing", msg |-> ""]
    /\ repoState.tag = "Error" =>
          /\ callerPc'[c] = "idle"
          /\ callerRes'[c] = [kind |-> "SourceUnavailable", msg |-> repoState.msg]

C7_EnsureCloned ==
    [][\A c \in Callers :
          (callerPc[c] = "ensure" /\ callerPc'[c] # "ensure") => C7_Dispatch(c)]_vars

\* An ensure_cloned has failed with SourceUnavailable carrying the message
\* of the Error state.
C7_Witness ==
    \E c \in Callers :
        /\ callerOp[c] = "ensure_cloned"
        /\ callerPc[c] = "idle"
        /\ repoState.tag = "Error"
        /\ callerRes[c] = [kind |-> "SourceUnavailable", msg |-> repoState.msg]

\* C14: a clone does not run past the clone timeout and a fetch does not
\* run past the fetch timeout: no caller is still in its blocking clone
\* (repository Cloning) or fetch (repository Updating) after that time.
C14_TimeoutsEnforced ==
    \A c \in Callers :
        /\ callerPc[c] = "cloning" => gitElapsed[c] <= CloneTimeout
        /\ callerPc[c] = "fetching" => gitElapsed[c] <= FetchTimeout

\* C35: the repository is never left in Cloning or Updating with no
\* operation in progress: whenever the state is Cloning or Updating, the
\* blocking Git task of some clone or fetch is still running, however the
\* tasks before it ended.
C35_NeverLeftInProgress ==
    repoState.tag \in {"Cloning", "Updating"} => GitOpsInProgress # {}

\* C36: once the repository state is Error it never changes again: every
\* later step leaves it as it is, and every ensure_cloned that looks at it
\* fails with SourceUnavailable and starts no clone.
C36_ErrorIsFinal ==
    [][repoState.tag = "Error" =>
          /\ repoState' = repoState
          /\ \A c \in Callers :
                (callerPc[c] = "ensure" /\ callerPc'[c] # "ensure") =>
                    /\ callerPc'[c] = "idle"
                    /\ callerRes'[c].kind = "SourceUnavailable"]_vars

\* ------------------------------------------- RefreshScheduler: the claims

\* C4: a failed refresh that leaves failureCount at or above maxFailures
\* sets the interval to min(previous interval * backoffMultiplier,
\* maxBackoff), one that leaves it below does not change the interval, a
\* successful refresh sets it back to the configured interval; the timer
\* then runs with that interval.
C4_Step ==
    /\ (schedPc = "increase" /\ schedPc' # "increase") =>
          IF failureCount >= config.maxFailures
          THEN currentBackoff' =
                  (IF currentBackoff * config.multiplier <= config.maxBackoff
                   THEN currentBackoff * config.multiplier
                   ELSE config.maxBackoff)
          ELSE currentBackoff' = currentBackoff
    /\ (schedPc = "reset" /\ schedPc' # "reset") => currentBackoff' = config.interval
    /\ (schedPc = "adjust" /\ schedPc' # "adjust") => timerPeriod' = currentBackoff

C4_Backoff == [][C4_Step]_vars

\* The backoff was raised to the cap after maxFailures failures in a row.
C4_Witness ==
    /\ schedPc = "adjust"
    /\ failureCount >= config.maxFailures
    /\ failureCount >= 2
    /\ currentBackoff = config.maxBackoff
    /\ timerPeriod < currentBackoff
    /\ timerPeriod > config.interval

\* C8: after a refresh changed the interval, no refresh attempt starts
\* earlier than one new interval after the attempt that changed it.
C8_WaitsNewInterval ==
    [][(/\ schedPc = "select"
        /\ schedPc' = "refreshing"
        /\ timerFresh
        /\ lastStart >= 0)
       => now >= lastStart + timerPeriod]_vars

\* C9: after stop() or the drop of the handle the loop eventually exits,
\* and once it has seen the shutdown it starts no refresh.
C9_Shutdown ==
    /\ shutdownValue ~> (schedPc = "exited")
    /\ [][schedPc = "exited" => schedPc' = "exited"]_vars

\* The loop has left on stop() with the handle still held, after it ran a
\* refresh.
C9_Witness ==
    /\ schedPc = "exited"
    /\ shutdownValue
    /\ handle = "held"
    /\ lastStart >= 0

\* C37: whenever failureCount is 0 and no refresh is in progress (the
\* scheduler is created, waiting in select! or has exited), the scheduler's
\* current interval is the configured base interval.
C37_IntervalIsBase ==
    (failureCount = 0 /\ schedPc \in {"created", "select", "exited"}) =>
        currentBackoff = config.interval

\* ------------------------------------------- ConfigCache TTL: the claims

\* C21: a lookup (get, the first lookup of get_or_insert_with, the lookup
\* of try_get_with) never returns an entry that is cacheTtl or more time
\* units old; get on a key whose entry has expired returns nothing, and a
\* get_or_insert_with that finds the entry of its key expired and nothing
\* in flight invokes build.
C21_Expiry ==
    /\ [](\A t \in Tasks : hitAge[t] < cacheTtl)
    /\ [][\A t \in Tasks :
            LET k == taskKey'[t]
                stale == cache[k] # None /\ cacheNow - insertedAt[k] >= cacheTtl
            IN  /\ (/\ taskPc[t] = "idle" /\ taskPc'[t] = "idle"
                    /\ taskRes'[t] # taskRes[t]
                    /\ stale) => taskRes'[t].kind = "none"
                /\ (/\ taskPc[t] = "miss" /\ taskPc'[t] # "miss"
                    /\ taskRes'[t].kind # "dropped"
                    /\ stale /\ waiters[k] = None) =>
                       /\ taskPc'[t] = "building"
                       /\ callCount'[k] = callCount[k] + 1]_vars

\* The entry the first build of a key stored has expired and is still
\* stored, and the caller runs the second build of the key.
C21_Witness ==
    \E k \in Keys :
        /\ cache[k] \in BuildIds
        /\ builds[cache[k]].status = "ok"
        /\ cacheNow - insertedAt[k] >= cacheTtl
        /\ taskPc[TtlCaller] = "building"
        /\ taskKey[TtlCaller] = k
        /\ callCount[k] = 2

\* C22: a get_or_insert_with on a key whose entry is stored and has not
\* expired returns the stored value at its first lookup, without invoking
\* build: it goes on to try_get_with only when the key has no such entry.
C22_PresentReturned ==
    [][\A t \in Tasks :
          LET k == taskKey'[t]
              fresh == cache[k] # None /\ cacheNow - insertedAt[k] < cacheTtl
          IN  /\ (taskPc[t] = "idle" /\ taskPc'[t] = "miss") => ~fresh
              /\ (/\ taskPc[t] = "idle" /\ taskPc'[t] = "idle"
                  /\ taskRes'[t] # taskRes[t]
                  /\ fresh) =>
                     /\ taskRes'[t].kind = "ok"
                     /\ taskRes'[t].val = cache[k]
                     /\ callCount' = callCount
                     /\ builds' = builds]_vars

\* A get_or_insert_with has returned, as a hit, the value a build stored
\* a time unit or more before; the key was built once.
C22_Witness ==
    \E k \in Keys :
        /\ taskPc[TtlCaller] = "idle"
        /\ taskKey[TtlCaller] = k
        /\ taskRes[TtlCaller].via = "hit"
        /\ taskRes[TtlCaller].val = cache[k]
        /\ cache[k] \in BuildIds
        /\ hitAge[TtlCaller] >= 1
        /\ callCount[k] = 1

\* ------------------------------ ConfigCache invalidation: the claims

\* C11: when invalidate_by_pattern(p) returns, every entry it found whose
\* key string matches p is gone, the count it returns is the number of
\* those entries, and every entry whose key string does not match p is
\* still there with the value it had (entries inserted by others while
\* the call was running aside).
C11_Return ==
    (invPc = "removing" /\ invPc' = "idle") =>
        /\ \A k \in CacheKeys \ invTouched :
              store'[k] = IF GlobMatches(invPattern, KeyToString(k))
                          THEN None ELSE invBefore[k]
        /\ invResult' = Cardinality({k \in CacheKeys :
                            /\ invBefore[k] # None
                            /\ GlobMatches(invPattern, KeyToString(k))})

C11_PatternFrame == [][C11_Return]_vars

\* A call with a pattern that holds a wildcard has returned after removing
\* one entry and leaving another one.
C11_Witness ==
    /\ invPc = "idle"
    /\ invResult = 1
    /\ \E i \in 1..Len(invPattern) : invPattern[i] \in {"*", "?"}
    /\ \E k \in CacheKeys : store[k] # None /\ ~GlobMatches(invPattern, KeyToString(k))
    /\ \E k \in CacheKeys : store[k] = None /\ GlobMatches(invPattern, KeyToString(k))

\* C23: the count an invalidation operation reports is the number of
\* entries that were in the cache and that the operation removed (0 when
\* there was none): for the operations that go through a pattern, the
\* entries found matching; for invalidate_by_app_profile_label and DELETE
\* /cache, the entries the call removed.
C23_CountIsInvalidated ==
    [][/\ (invPc = "removing" /\ invPc' = "idle") =>
              invResult' = Cardinality({k \in CacheKeys :
                               /\ invBefore[k] # None
                               /\ GlobMatches(invPattern, KeyToString(k))})
       /\ (/\ invPc = "idle" /\ invPc' = "idle"
           /\ \/ invResult' # invResult
              \/ \E k \in CacheKeys : store[k] # None /\ store'[k] = None) =>
              invResult' = Cardinality({k \in CacheKeys :
                               store[k] # None /\ store'[k] = None})]_vars

\* Patterns that are no glob patterns: a [ that is not closed, and three *
\* in a row.
C33_InvalidPatterns == {<<"[">>, <<"*", "*", "*">>}

\* C33: invalidate_by_pattern called with an invalid glob pattern returns
\* at once with count 0 and removes no entry; there is no error it could
\* return, its result being an InvalidationResult.
C33_InvalidPatternDropped ==
    [][(/\ invCall'.op = "pattern"
        /\ invPattern' \in C33_InvalidPatterns
        /\ <<invCall, invPattern, invResult, invPc>> # <<invCall', invPattern', invResult', invPc'>>) =>
           /\ invPc' = "idle"
           /\ invResult' = 0
           /\ store' = store]_vars

\* A call with an invalid pattern has returned 0 while the cache held
\* entries, which are still there.
C33_Witness ==
    /\ invCall.op = "pattern"
    /\ invPattern = <<"*", "*", "*">>
    /\ invPc = "idle"
    /\ invResult = 0
    /\ \A k \in CacheKeys : store[k] # None

\* C39: for every argument string, invalidate_by_app(app) removes only
\* entries whose key's app is the lower-cased app, and
\* invalidate_by_app_profile(app, profile) only entries whose app and
\* profile are the lower-cased arguments.
C39_RemovesOnlyEqual ==
    [][\A k \in CacheKeys :
          (invPc = "removing" /\ store[k] # None /\ store'[k] = None) =>
             /\ invCall.op = "app" => k.app = ToLowercase(invCall.app)
             /\ invCall.op = "app_profile" =>
                   /\ k.app = ToLowercase(invCall.app)
                   /\ k.profile = ToLowercase(invCall.profile)]_vars

\* C12: trigger_refresh accounts like a scheduled refresh.  When it returns
\* Ok the commit is recorded, the last error cleared, failureCount 0 and the
\* backoff the base interval; when it returns Err the error is recorded,
\* failureCount is one more and the backoff is what increase_backoff makes
\* of it after a scheduled failure.
C12_Step ==
    /\ (schedPc = "trigger_reset" /\ schedPc' = "created") =>
          /\ gitCommit' # None
          /\ lastError' = "none"
          /\ failureCount' = 0
          /\ currentBackoff' = config.interval
    /\ (schedPc = "created" /\ schedPc' = "created" /\ failureCount' # failureCount) =>
          /\ lastError' = "error"
          /\ failureCount' = failureCount + 1
          /\ currentBackoff' =
                IF failureCount' >= config.maxFailures
                THEN Min(currentBackoff * config.multiplier, config.maxBackoff)
                ELSE currentBackoff

C12_TriggerAccounting == [][C12_Step]_vars

\* C13 as stated: every attempt of the scheduler whose remote fetch
\* succeeded (refresh_repository went on to head_commit) is recorded as a
\* success: commit set, error cleared, failureCount 0.
C13_FetchSuccessRecorded ==
    [][(schedPc = "refreshing" /\ schedPc' # "refreshing"
            /\ callerOp[SchedCaller] = "head_commit") =>
          (gitCommit' # None /\ lastError' = "none" /\ failureCount' = 0)]_vars

\* C13, amended: a failed refresh never stops the scheduler (the loop
\* leaves only from select! on a shutdown, and after a recorded failure it
\* goes back to select!), and an attempt is recorded as a success (commit
\* set, error cleared, failureCount 0) exactly when its fetch and the
\* head_commit after it both succeed; every other attempt is recorded as
\* a failure that leaves the commit as it was.
C13_Step ==
    /\ (schedPc # "exited" /\ schedPc' = "exited") =>
          (schedPc = "select" /\ (shutdownValue \/ handle = "dropped"))
    /\ schedPc = "increase" => schedPc' \in {"increase", "adjust"}
    /\ schedPc = "adjust" => schedPc' \in {"adjust", "select"}
    /\ (schedPc = "refreshing" /\ schedPc' # "refreshing") =>
          IF callerOp[SchedCaller] = "head_commit" /\ callerRes[SchedCaller].kind = "Ok"
          THEN /\ gitCommit' # None
               /\ lastError' = "none"
               /\ failureCount' = 0
               /\ schedPc' = "reset"
          ELSE /\ gitCommit' = gitCommit
               /\ lastError' = "error"
               /\ failureCount' = failureCount + 1
               /\ schedPc' = "increase"

C13_FailuresDoNotStop == [][C13_Step]_vars

\* After failures that raised the backoff, a later attempt has just been
\* recorded as a success.
C13_Witness ==
    /\ schedPc = "reset"
    /\ currentBackoff > config.interval
    /\ gitCommit # None
    /\ failureCount = 0
    /\ lastError = "none"

\* ------------------------------------ configuration handlers: the claims

\* C15: on /{app}/{profile}/{label} with useDefaultLabel=true the handler
\* goes on to the default label exactly when the fetch at the requested
\* label failed with LabelNotFound, the answer then carries the default
\* label, and any other failure is answered with an error.
C15_RetryOnLabelNotFoundOnly ==
    (/\ httpPc = "done"
     /\ httpReq.endpoint = "app_profile_label"
     /\ httpReq.valid = "ok"
     /\ httpReq.useDefaultLabel) =>
        /\ httpRetried <=> httpFirstErr = "LabelNotFound"
        /\ (httpRetried /\ httpResp.status = 200) => httpResp.label = DefaultLabel
        /\ httpFirstErr \notin {"none", "LabelNotFound"} => httpResp.status # 200

\* C16: a request that ends on a fetch failure of the NotFound family is
\* answered 404, one that fails validation 400, one that ends on any other
\* fetch failure 500, with and without the cache.
C16_StatusOfFailure ==
    httpPc = "done" =>
        /\ httpErr \in {"ApplicationNotFound", "ProfileNotFound", "LabelNotFound"} =>
              httpResp.status = 404
        /\ httpErr = "validation" => httpResp.status = 400
        /\ httpErr = "Git" => httpResp.status = 500

\* C26: GET /{app}/{profile} serves the configuration at the default label
\* configured for the Git backend: a request of that endpoint answered 200
\* was keyed and fetched at the configured default label, which is what
\* default_label() returns.
C26_ServesConfiguredDefault ==
    (/\ httpPc = "done"
     /\ httpReq.endpoint = "app_profile"
     /\ httpResp.status = 200) =>
        /\ DefaultLabel = ConfiguredDefaultLabel
        /\ httpResp.label = ConfiguredDefaultLabel

\* The label has ".." or a control character in it.
C32_Traversal(label) ==
    \/ \E i \in DOMAIN label : i + 1 \in DOMAIN label /\ label[i] = "." /\ label[i + 1] = "."
    \/ \E i \in DOMAIN label : label[i] = "ctl"

\* C32: a request GET /{app}/{profile}/{label} whose URL-decoded label has
\* ".." or a control character in it is answered 400; the source is not
\* called for it, and no cache entry is read, created or removed for it.
C32_RejectedUntouched ==
    [][(/\ httpPc' = "done"
        /\ httpReq'.endpoint = "app_profile_label"
        /\ C32_Traversal(SanitizedLabel(httpReq'.label))) =>
           /\ httpResp'.status = 400
           /\ httpCalls' = {}
           /\ httpCached' = httpCached]_vars

\* Such a request has been answered 400 by a server whose cache holds a
\* response; its label had an encoded dot.
C32_Witness ==
    /\ httpPc = "done"
    /\ httpReq.endpoint = "app_profile_label"
    /\ httpReq.valid = "ok"
    /\ httpReq.label # SanitizedLabel(httpReq.label)
    /\ C32_Traversal(SanitizedLabel(httpReq.label))
    /\ httpResp.status = 400
    /\ httpCalls = {}
    /\ httpCacheOn
    /\ httpCached # {}

\* ---------------------------------------- ConfigFileResolver: the claims

\* The file names of the claimed output order for a query: app-pn, ...,
\* app-p1, app, application-pn, ..., application-p1, application.
C17_Order(q) ==
    LET n == Len(q.profiles)
    IN  [i \in 1..n |-> q.app \o <<"-">> \o q.profiles[n + 1 - i]]
        \o <<q.app>>
        \o [i \in 1..n |-> <<"application">> \o <<"-">> \o q.profiles[n + 1 - i]]
        \o <<<<"application">>>>

\* C17: with a single search path, the sources resolve returns are those
\* of the file names of C17_Order that have a file in the search path, in
\* that order, each named git:<label>:<path of an existing file with that
\* name, relative to the repository root>.
C17_ResolveOrder ==
    (resResult.kind = "Ok" /\ Len(searchPaths) <= 1) =>
        LET dir == IF searchPaths = <<>> THEN "" ELSE searchPaths[1]
            present == SelectSeq(C17_Order(resQuery),
                                 LAMBDA name : \E f \in fs : f.dir = dir /\ f.stem = name)
            out == resResult.sources
        IN  /\ Len(out) = Len(present)
            /\ \A i \in 1..Len(out) :
                  /\ out[i].stem = present[i]
                  /\ out[i].dir = dir
                  /\ out[i].scheme = "git"
                  /\ out[i].label = resQuery.label
                  /\ File(out[i].dir, out[i].stem, out[i].ext) \in fs

\* The query (myapp, [dev, prod]) on a single search path has returned
\* four or more sources.
C17_Witness ==
    /\ resResult.kind = "Ok"
    /\ Len(searchPaths) <= 1
    /\ resQuery.app = <<"myapp">>
    /\ resQuery.profiles = <<<<"dev">>, <<"prod">>>>
    /\ Len(resResult.sources) >= 4

\* The sources of the output that were found under a search path.
C30_FoundUnder(dir) == SelectSeq(resResult.sources, LAMBDA src : src.dir = dir)

\* C30: with several search paths, the sources found under one search path
\* come in the order of a single search path (app-pn, ..., application),
\* and in the output every source found under a later search path
\* precedes every source found under an earlier one.
C30_LaterPathFirst ==
    (resResult.kind = "Ok" /\ Len(searchPaths) >= 2) =>
        LET out == resResult.sources
        IN  /\ \A i, j \in DOMAIN out :
                  (\E k, l \in DOMAIN searchPaths :
                      /\ searchPaths[k] = out[i].dir
                      /\ searchPaths[l] = out[j].dir
                      /\ k > l) => i < j
            /\ \A k \in DOMAIN searchPaths :
                  LET present == SelectSeq(C17_Order(resQuery),
                                     LAMBDA name : \E f \in fs :
                                         f.dir = searchPaths[k] /\ f.stem = name)
                      found == C30_FoundUnder(searchPaths[k])
                  IN  /\ Len(found) = Len(present)
                      /\ \A i \in DOMAIN found : found[i].stem = present[i]
            /\ \A i \in DOMAIN out : \E k \in DOMAIN searchPaths : searchPaths[k] = out[i].dir

\* resolve has returned, for myapp, two or more sources of each of the
\* search paths config/ and the root, in this order.
C30_Witness ==
    /\ resResult.kind = "Ok"
    /\ searchPaths = <<"config", "">>
    /\ resQuery.app = <<"myapp">>
    /\ Len(C30_FoundUnder("config")) >= 2
    /\ Len(C30_FoundUnder("")) >= 2

\* The extension order of the claim, and the place of an extension in it.
C31_Order == <<"yml", "yaml", "json", "properties">>
C31_Place(ext) == CHOOSE i \in DOMAIN C31_Order : C31_Order[i] = ext

\* The file of the first existing extension for a directory and a file
\* name (the set is empty when no file exists).
C31_FirstExisting(dir, name) ==
    {f \in fs : /\ f.dir = dir /\ f.stem = name
                /\ \A g \in fs : (g.dir = dir /\ g.stem = name) =>
                                      C31_Place(f.ext) <= C31_Place(g.ext)}

\* The (search path, file name) pairs of the query: base name application
\* or the application's, without or with a profile of the query.
C31_Pairs ==
    {[dir |-> d, name |-> n] :
        d \in {EffectiveSearchPaths[k] : k \in DOMAIN EffectiveSearchPaths},
        n \in {<<"application">>, resQuery.app}
              \cup {b \o <<"-">> \o resQuery.profiles[i] :
                        b \in {<<"application">>, resQuery.app},
                        i \in DOMAIN resQuery.profiles}}

C40_NoFileTwice ==
    resResult.kind = "Ok" =>
        \A i, j \in DOMAIN resResult.sources :
            i # j => resResult.sources[i] # resResult.sources[j]

\* ---------------------------------------- PropertySourceList: the claims

\* The deep-merge fold of the first n sources of the list, left to right,
\* into an empty map.
RECURSIVE C18_Fold(_)
C18_Fold(n) ==
    IF n = 0 THEN EmptyMap ELSE DeepMerge(C18_Fold(n - 1), sources[n].config)

\* The call of add whose source takes precedence among those of the set
\* calls: the highest priority, the latest call among equal priorities.
C18_Winner(calls) ==
    CHOOSE i \in calls : \A j \in calls :
        \/ added[j].priority < added[i].priority
        \/ added[j].priority = added[i].priority /\ j <= i

\* C18: after any sequence of add calls the list holds the added sources
\* by ascending priority, those of equal priority in the order they were
\* added; merge() returns the left-to-right deep-merge fold of the list
\* into an empty map, so that a key holds the value of the source of
\* highest priority (the one added last among equals) that sets it, when
\* that value is no object.
C18_OrderedFold ==
    /\ \A i, j \in 1..Len(sources) :
          i < j => sources[i].priority <= sources[j].priority
    /\ \A p \in Priorities :
          SelectSeq(sources, LAMBDA s : s.priority = p)
              = SelectSeq(added, LAMBDA s : s.priority = p)
    /\ listMerged # NoMap =>
          /\ listMerged = C18_Fold(Len(sources))
          /\ \A k \in MapKeys :
                LET calls == {i \in 1..Len(added) : added[i].config[k] # Absent}
                IN  (calls # {} /\ ~IsObject(added[C18_Winner(calls)].config[k])) =>
                        listMerged[k] = added[C18_Winner(calls)].config[k]

\* Three sources were added with priorities 10, 0, 10, the two of priority
\* 10 setting "a" to different integers; the list is not in the order of
\* the calls, and merge() returned the value of the one added last.
C18_Witness ==
    /\ Len(added) = 3
    /\ added[1].priority = 10 /\ added[2].priority = 0 /\ added[3].priority = 10
    /\ added[1].config["a"] = Integer(1)
    /\ added[3].config["a"] = Integer(2)
    /\ sources # added
    /\ listMerged # NoMap
    /\ listMerged["a"] = Integer(2)

\* ------------------------------------------------- deep_merge: the claims

\* C19 as stated: after the merge, every dotted key that resolves in base
\* and does not resolve in overlay resolves in the merged map to what it
\* resolves to in base.
C19_BaseOnlyKept ==
    mergeResult # NoMap =>
        \A k \in Paths :
            (Get(mergeBase, k) # Absent /\ Get(mergeOverlay, k) = Absent) =>
                Get(mergeResult, k) = Get(mergeBase, k)

\* overlay holds a value that is no object at a proper prefix of k.
C19_Shadowed(k) ==
    \E n \in 1..(Len(k) - 1) :
        /\ Get(mergeOverlay, SubSeq(k, 1, n)) # Absent
        /\ ~IsObject(Get(mergeOverlay, SubSeq(k, 1, n)))

\* C19: after the merge, every dotted key that resolves in base, does not
\* resolve in overlay, and has no proper prefix at which overlay holds a
\* value that is no object, resolves in the merged map to what it resolves
\* to in base.
C19_BaseKeptUnlessShadowed ==
    mergeResult # NoMap =>
        \A k \in Paths :
            (/\ Get(mergeBase, k) # Absent
             /\ Get(mergeOverlay, k) = Absent
             /\ ~C19_Shadowed(k)) =>
                Get(mergeResult, k) = Get(mergeBase, k)

\* A merge has kept a value of base at a key of two parts under an object
\* that overlay holds too, and has changed base.
C19_Witness ==
    /\ mergeResult # NoMap
    /\ mergeResult # mergeBase
    /\ \E k \in Paths :
          /\ Len(k) = 2
          /\ Get(mergeBase, k) # Absent
          /\ Get(mergeOverlay, k) = Absent
          /\ IsObject(Get(mergeOverlay, SubSeq(k, 1, 1)))
          /\ Get(mergeResult, k) = Get(mergeBase, k)

\* C20: after the merge, every dotted key at which overlay holds a value
\* that is no object (an integer or an array) resolves in the merged map
\* to that value, whatever base holds at the key; where both hold arrays
\* the merged map holds the array of overlay.
C20_OverlayLeafWins ==
    mergeResult # NoMap =>
        \A k \in Paths :
            LET o == Get(mergeOverlay, k)
                b == Get(mergeBase, k)
            IN  /\ (o # Absent /\ ~IsObject(o)) => Get(mergeResult, k) = o
                /\ ("arr" \in DOMAIN o /\ "arr" \in DOMAIN b) =>
                       Get(mergeResult, k).arr = o.arr

\* A merge has put the array of overlay where base and overlay held
\* different arrays, at a key of two parts.
C20_Witness ==
    /\ mergeResult # NoMap
    /\ \E k \in Paths :
          /\ Len(k) = 2
          /\ Get(mergeBase, k) = Array(<<1>>)
          /\ Get(mergeOverlay, k) = Array(<<2>>)
          /\ Get(mergeResult, k) = Array(<<2>>)

\* --------------------------------------------------- CacheKey: the claims

\* The letter of a character whatever its case (the small sigma is the
\* lower case of the capital sigma).
C24_Letter(c) ==
    CASE c = "A" -> "a"
      [] c = "P" -> "p"
      [] c = "M" -> "m"
      [] c = "SIGMA" -> "sigma"
      [] OTHER -> c

\* x and y differ at most in the case of their letters.
C24_SameLetters(x, y) ==
    /\ Len(x) = Len(y)
    /\ \A i \in 1..Len(x) : C24_Letter(x[i]) = C24_Letter(y[i])

C24_Fields == {"app", "profile", "label"}

C24_Ascii(x) == \A i \in 1..Len(x) : x[i] \notin {"SIGMA", "sigma", "final_sigma"}

\* Both keys are built, they are equal, hash equally and have the same
\* string form, which holds no upper-case character.
C24_SameKey ==
    /\ keyA = keyB
    /\ HashOf(keyA) = HashOf(keyB)
    /\ KeyToString(keyA) = KeyToString(keyB)
    /\ \A i \in 1..Len(KeyToString(keyA)) :
          KeyToString(keyA)[i] \notin {"A", "P", "M", "SIGMA"}

\* C24 as stated: two keys built from components that differ only in
\* letter case are equal, hash equally and have the same lower-case string
\* form.
C24_CaseInsensitive ==
    (/\ keyA # NoKey /\ keyB # NoKey
     /\ \A f \in C24_Fields : C24_SameLetters(rawA[f], rawB[f])) => C24_SameKey

\* C24: two keys built from components of ASCII characters that differ
\* only in letter case are equal, hash equally, and their string form is
\* app:profile:label with every letter in lower case; two keys are equal
\* only if their components differ at most in letter case.
C24_AsciiCaseInsensitive ==
    (keyA # NoKey /\ keyB # NoKey) =>
        /\ (/\ \A f \in C24_Fields : C24_Ascii(rawA[f]) /\ C24_Ascii(rawB[f])
            /\ \A f \in C24_Fields : C24_SameLetters(rawA[f], rawB[f])) =>
               /\ C24_SameKey
               /\ KeyToString(keyA) =
                     [i \in 1..Len(rawA.app) |-> C24_Letter(rawA.app[i])] \o <<":">>
                     \o [i \in 1..Len(rawA.profile) |-> C24_Letter(rawA.profile[i])]
                     \o <<":">>
                     \o [i \in 1..Len(rawA.label) |-> C24_Letter(rawA.label[i])]
        /\ keyA = keyB => \A f \in C24_Fields : C24_SameLetters(rawA[f], rawB[f])

\* Two keys built from ASCII components that differ in the case of a
\* letter of each component are the same key.
C24_Witness ==
    /\ keyA # NoKey /\ keyB # NoKey
    /\ \A f \in C24_Fields : C24_Ascii(rawA[f]) /\ rawA[f] # rawB[f]
    /\ keyA = keyB
    /\ Len(rawA.app) = MaxStrLen

\* C38: a response served for a request (app, profiles, label), built now
\* or taken from the cache, was built by a fetch for exactly that app, those
\* profiles and that label, never for a request that differs from it in
\* letter case.
C38_BuiltForTheRequest == srvReq # NoKey => srvResp = srvReq

\* --------------------------------------------------- GitState: the claims

\* C25: whatever calls of record_success, record_failure, set_commit and
\* reset came before, is_healthy returns true exactly when a commit is set
\* and no last error is recorded; record_failure leaves the commit as it
\* was; failureCount is the number of record_failure calls since the last
\* record_success or reset.
C25_HealthAndCount ==
    /\ [](failureCount = failureCalls)
    /\ [][/\ healthy' # healthy =>
                (healthy' = "true" <=> (gitCommit # None /\ lastError = "none"))
          /\ failureCalls' = failureCalls + 1 => gitCommit' = gitCommit]_vars

\* is_healthy has returned false for a state with a commit and two
\* failures recorded after the last success.
C25_Witness ==
    /\ healthy = "false"
    /\ gitCommit # None
    /\ lastRefresh >= 0
    /\ lastError # "none"
    /\ failureCount = 2

\* ----------------------- ConfigMap::get, flatten, the response: the claims

\* The leaves of a value that is found at the dotted key prefix: the
\* values that are no objects, each with the keys on its way joined by dots.
RECURSIVE C27_LeavesOf(_, _)
C27_LeavesOf(prefix, value) ==
    IF IsObject(value)
    THEN UNION {C27_LeavesOf(NewKey(prefix, value.obj[i].key), value.obj[i].value) :
                    i \in DOMAIN value.obj}
    ELSE {[key |-> prefix, value |-> value]}

\* C27: the source map of a property source of a response has no object
\* among its values, and every leaf of the file, found at a nested path,
\* is in the map under the keys of the path joined by dots.
C27_SourceIsFlat ==
    respSource # NoSource =>
        /\ \A e \in respSource.source : "object" \notin DOMAIN e.value
        /\ \A i \in DOMAIN flatConfig.inner :
              \A l \in C27_LeavesOf(flatConfig.inner[i].key, flatConfig.inner[i].value) :
                  [key |-> l.key, value |-> ConfigValueToJson(l.value)] \in respSource.source

\* C28: each entry (k, v) of flatten(c) has c.get(k) = Some(v), and each
\* value that is no object and that c.get reaches by a dotted path is the
\* value of exactly one entry of flatten(c), the one under that path.
C28_FlattenAgreesWithGet ==
    flatResult # NoFlat =>
        /\ \A i \in DOMAIN flatResult.entries :
              GetPath(flatConfig, flatResult.entries[i].key) = flatResult.entries[i].value
        /\ \A p \in PathStrings :
              LET v == GetPath(flatConfig, p)
              IN  (v # Absent /\ ~IsObject(v)) =>
                      Cardinality({i \in DOMAIN flatResult.entries :
                                      /\ flatResult.entries[i].key = p
                                      /\ flatResult.entries[i].value = v}) = 1

\* The value reached from a value by descending one object per segment;
\* absent when a segment is missing or the value met is no object.
RECURSIVE C29_Descend(_, _)
C29_Descend(value, segments) ==
    IF segments = <<>> THEN value
    ELSE IF ~IsObject(value) THEN Absent
    ELSE IF \A i \in DOMAIN value.obj : value.obj[i].key # Head(segments) THEN Absent
    ELSE C29_Descend(
             value.obj[CHOOSE i \in DOMAIN value.obj :
                           value.obj[i].key = Head(segments)].value,
             Tail(segments))

\* C29: get(path) returns None for the empty path, and otherwise the value
\* reached from the map by splitting the path on '.' and descending one
\* object per segment, None when a segment is missing or when a value that
\* is no object is met before all segments are consumed.
C29_GetDescends ==
    getResult # NoCall =>
        getResult = IF getPath = <<>> THEN Absent
                    ELSE C29_Descend(Object(flatConfig.inner), SplitDot(getPath))

\* get returned a value it reached through two objects.
C29_Witness ==
    /\ getResult # NoCall
    /\ getResult # Absent
    /\ Len(SplitDot(getPath)) = 3

====
